---- MODULE Spec2Model ----
(***************************************************************************)
(* The sudo credential cache of KIAUH (kiauh/utils/sudo_session.py): the   *)
(* SudoSession class with its background refresh thread, the module-level  *)
(* session functions, and main()'s use of a session (kiauh/main.py).       *)
(*                                                                         *)
(* One foreground thread calls the operations; every started refresh       *)
(* thread runs concurrently with it.  ensure_active() runs before its      *)
(* thread exists, so it is one step; close() is split at the points where  *)
(* the refresh thread can interleave (is_alive, set, join, the test of     *)
(* _enabled, the revocation command).                                      *)
(* The runtime is CPython 3.11: Event.wait(timeout) returns False once its *)
(* timed acquire has timed out, and a join() that is interrupted marks the *)
(* Thread object stopped.                                                  *)
(***************************************************************************)
EXTENDS Integers, Sequences, FiniteSets, TLC

\* ------------------------------------------------------------------ bounds
\* SudoSession objects constructed in one run.
MaxSessions == 2
\* ensure_active() calls and close() calls counted per session.
MaxCalls == 2
\* Refresh commands one refresh thread runs.
MaxTicks == 3
\* Once the module has dropped a session whose refresh thread still runs
\* (the run is then "late"): the ensure_active() and close() calls made on
\* the session constructed next, and the refresh commands a thread may have
\* run and still start another.
MaxLateCalls == 1
MaxLateTicks == 1

SIDs == 1..MaxSessions
NoSession == 0

\* --------------------------------------------------------------- commands
CmdProbe == <<"sudo", "-n", "-v">>
CmdPlain == <<"sudo", "-v">>
NoCmd == <<>>

\* ----------------------------------------------- results of a subprocess
\* stderr is a sequence of words; the words of one text are joined by single
\* blanks, so a phrase is a run of adjacent words.
StderrSamples ==
    { <<>>,
      <<"sudo:", "unrecognized", "option", "-n">>,
      <<"sudo:", "INVALID", "OPTION", "--", "n">>,
      <<"sudo:", "a", "password", "is", "required">> }

Results == [returncode : {0, 1}, stderr : StderrSamples]
NoResult == [returncode |-> -1, stderr |-> <<>>]
\* subprocess.run raised KeyboardInterrupt instead of returning.
Interrupted == [returncode |-> -2, stderr |-> <<>>]

\* str.lower() on one word.
LowerWord(w) ==
    CASE w = "INVALID" -> "invalid"
      [] w = "OPTION" -> "option"
      [] OTHER -> w

Lower(text) == [i \in 1..Len(text) |-> LowerWord(text[i])]

\* `phrase in text` for a phrase of two words.
Contains(text, w1, w2) ==
    \E i \in 1..(Len(text) - 1) : text[i] = w1 /\ text[i + 1] = w2

\* SudoSession._is_option_unsupported
IsOptionUnsupported(stderr) ==
    IF stderr = <<>>
    THEN FALSE
    ELSE LET stderr_lower == Lower(stderr)
         IN Contains(stderr_lower, "unrecognized", "option")
            \/ Contains(stderr_lower, "invalid", "option")

\* The selection taking `sudo -v` untried when the probe is unsupported.
SelectRefreshCommand_NoTrial(r1, r2) ==
    IF r1 = Interrupted
    THEN [cmd |-> NoCmd, runs |-> 1, raised |-> TRUE]
    ELSE IF r1.returncode = 0
    THEN [cmd |-> CmdProbe, runs |-> 1, raised |-> FALSE]
    ELSE IF ~IsOptionUnsupported(r1.stderr)
    THEN [cmd |-> NoCmd, runs |-> 1, raised |-> FALSE]
    ELSE [cmd |-> CmdPlain, runs |-> 1, raised |-> FALSE]

\* SudoSession._select_refresh_command: r1 is what `sudo -n -v` gives, r2 what
\* `sudo -v` gives if it is tried.  cmd is the return value, runs the number
\* of commands run; raised says that a command was interrupted, and the
\* KeyboardInterrupt, which nothing catches, ended the selection.
SelectRefreshCommand(r1, r2) ==
    IF r1 = Interrupted
    THEN [cmd |-> NoCmd, runs |-> 1, raised |-> TRUE]
    ELSE IF r1.returncode = 0
    THEN [cmd |-> CmdProbe, runs |-> 1, raised |-> FALSE]
    ELSE IF ~IsOptionUnsupported(r1.stderr)
    THEN [cmd |-> NoCmd, runs |-> 1, raised |-> FALSE]
    ELSE IF r2 = Interrupted
    THEN [cmd |-> NoCmd, runs |-> 2, raised |-> TRUE]
    ELSE IF r2.returncode = 0
    THEN [cmd |-> CmdPlain, runs |-> 2, raised |-> FALSE]
    ELSE [cmd |-> NoCmd, runs |-> 2, raised |-> FALSE]

\* ------------------------------------------------------------------ state
VARIABLES
    sudoPresent,     \* shutil.which("sudo") is not None
    prompted,        \* SudoSession._prompted, per session
    enabled,         \* SudoSession._enabled
    stop_event,      \* SudoSession._stop_event is set
    thread,          \* SudoSession._thread is not None
    refresh_cmd,     \* SudoSession._refresh_cmd
    tstate,          \* where the session's refresh thread is
    result,          \* the refresh thread's local `result`
    running,         \* the command the refresh thread's subprocess runs
    is_stopped,      \* Thread._is_stopped of the session's thread object
    GLOBAL_SESSION,  \* _GLOBAL_SESSION (NoSession: None)
    nSessions,       \* SudoSession objects constructed so far
    pc,              \* where the foreground is inside close()
    cur,             \* the session the foreground is closing
    caller,          \* who called the close() in progress
    lastCall,        \* how the last finished foreground call ended
    mainpc,          \* where main() is
    mainSession,     \* main()'s local sudo_session
    mainError,       \* the exception main()'s try block ended with
    promptCount,     \* consent prompts shown, per session
    primeCount,      \* priming commands (sudo -v) run by ensure_active
    selectRuns,      \* commands run by _select_refresh_command
    startCount,      \* refresh threads started
    revokeCount,     \* revocation commands (sudo -k) run by close
    ticks,           \* refresh commands run by the refresh thread
    eaCalls,         \* ensure_active() calls made
    closeCalls,      \* close() calls made
    answers,         \* what ensure_active() on the session was answered
    enabledAtCall,   \* _enabled when the close() in progress was called
    failures,        \* refresh commands that exited non-zero
    flow,            \* the crowsnest flow in progress
    fpc,             \* the statement of the flow that runs next
    init_system,     \* what get_init_system() reports in this process
    flowsRun,        \* flows finished
    proc             \* the procedure under study: its inputs, files, locals

fields == <<prompted, enabled, stop_event, thread, refresh_cmd>>
task == <<tstate, result, running, is_stopped>>
modv == <<GLOBAL_SESSION, nSessions>>
fg == <<pc, cur, caller, lastCall>>
mainv == <<mainpc, mainSession, mainError>>
counts == <<promptCount, primeCount, selectRuns, startCount, revokeCount,
            ticks, eaCalls, closeCalls>>
hist == <<answers, enabledAtCall, failures>>
flowv == <<flow, fpc, init_system, flowsRun>>
sessv == <<sudoPresent, fields, task, modv, fg, mainv, counts, hist, flowv>>
vars == <<sessv, proc>>

\* Nothing asked yet: no prompt shown, no command run by ensure_active().
NoAnswers ==
    [consent |-> "none", prime |-> NoResult, probe |-> NoResult,
     plain |-> NoResult]

\* What the code reads of a subprocess result: stderr only after a non-zero
\* exit.
Seen(r) == IF r.returncode = 0 THEN [r EXCEPT !.stderr = <<>>] ELSE r

\* Where a refresh thread that has not returned from _refresh_loop can be:
\* at or inside stop_event.wait() (wait), inside it and notified by set()
\* (signalled), inside it with the timed acquire timed out (due), or in the
\* loop body.
Alive == {"wait", "signalled", "due", "run", "blocked", "got"}

Range(f) == { f[i] : i \in DOMAIN f }

\* No procedure outside the sudo session is running.
NoProc == [name |-> "none"]

\* SudoSession.__init__ and the state before anything runs.
SessionInit ==
    /\ sudoPresent \in BOOLEAN
    /\ prompted = [s \in SIDs |-> FALSE]
    /\ enabled = [s \in SIDs |-> FALSE]
    /\ stop_event = [s \in SIDs |-> FALSE]
    /\ thread = [s \in SIDs |-> FALSE]
    /\ refresh_cmd = [s \in SIDs |-> CmdProbe]
    /\ tstate = [s \in SIDs |-> "none"]
    /\ result = [s \in SIDs |-> NoResult]
    /\ running = [s \in SIDs |-> NoCmd]
    /\ is_stopped = [s \in SIDs |-> FALSE]
    /\ GLOBAL_SESSION = NoSession
    /\ nSessions = 0
    /\ pc = "idle"
    /\ cur = NoSession
    /\ caller = "none"
    /\ lastCall = "none"
    /\ mainpc = "notstarted"
    /\ mainSession = NoSession
    /\ mainError = "none"
    /\ promptCount = [s \in SIDs |-> 0]
    /\ primeCount = [s \in SIDs |-> 0]
    /\ selectRuns = [s \in SIDs |-> 0]
    /\ startCount = [s \in SIDs |-> 0]
    /\ revokeCount = [s \in SIDs |-> 0]
    /\ ticks = [s \in SIDs |-> 0]
    /\ eaCalls = [s \in SIDs |-> 0]
    /\ closeCalls = [s \in SIDs |-> 0]
    /\ answers = [s \in SIDs |-> NoAnswers]
    /\ enabledAtCall = FALSE
    /\ failures = [s \in SIDs |-> 0]
    /\ flow = "none"
    /\ fpc = "none"
    /\ init_system = "unknown"
    /\ flowsRun = 0

Init == SessionInit /\ proc = NoProc

\* --------------------------------------------------- SudoSession methods
\* shutil.which("sudo") is not None
WhichSudo_Always == TRUE

WhichSudo == sudoPresent

\* self._prompted = True
MarkPrompted_Skip(s) == prompted

MarkPrompted(s) == [prompted EXCEPT ![s] = TRUE]

\* What get_confirm can do: return True, return False, or be cancelled by an
\* interrupt (KeyboardInterrupt raised out of it).
ConsentOutcomes == {"yes", "no", "interrupt"}

\* The return or raise that ends ensure_active() on session s, for the consent
\* answer, the result of the priming command and the results of the commands
\* _select_refresh_command tries.
EAExit_IgnoreDecline(s, consent, prime, r1, r2) ==
    IF prompted[s] THEN "again"
    ELSE IF ~WhichSudo THEN "nosudo"
    ELSE IF consent = "interrupt" THEN "raised"
    ELSE IF prime = Interrupted THEN "cancelled"
    ELSE IF prime.returncode # 0 THEN "failed"
    ELSE IF SelectRefreshCommand(r1, r2).raised THEN "select_raised"
    ELSE IF SelectRefreshCommand(r1, r2).cmd = NoCmd THEN "norefresh"
    ELSE "started"

EAExit_IgnoreFailure(s, consent, prime, r1, r2) ==
    IF prompted[s] THEN "again"
    ELSE IF ~WhichSudo THEN "nosudo"
    ELSE IF consent = "interrupt" THEN "raised"
    ELSE IF consent = "no" THEN "declined"
    ELSE IF prime = Interrupted THEN "cancelled"
    ELSE IF SelectRefreshCommand(r1, r2).raised THEN "select_raised"
    ELSE IF SelectRefreshCommand(r1, r2).cmd = NoCmd THEN "norefresh"
    ELSE "started"

EAExit_InterruptRaises(s, consent, prime, r1, r2) ==
    IF prompted[s] THEN "again"
    ELSE IF ~WhichSudo THEN "nosudo"
    ELSE IF consent = "interrupt" THEN "raised"
    ELSE IF consent = "no" THEN "declined"
    ELSE IF prime = Interrupted THEN "raised"
    ELSE IF prime.returncode # 0 THEN "failed"
    ELSE IF SelectRefreshCommand(r1, r2).raised THEN "select_raised"
    ELSE IF SelectRefreshCommand(r1, r2).cmd = NoCmd THEN "norefresh"
    ELSE "started"

EAExit_InterruptEnables(s, consent, prime, r1, r2) ==
    IF prompted[s] THEN "again"
    ELSE IF ~WhichSudo THEN "nosudo"
    ELSE IF consent = "interrupt" THEN "raised"
    ELSE IF consent = "no" THEN "declined"
    ELSE IF prime.returncode > 0 THEN "failed"
    ELSE IF SelectRefreshCommand(r1, r2).raised THEN "select_raised"
    ELSE IF SelectRefreshCommand(r1, r2).cmd = NoCmd THEN "norefresh"
    ELSE "started"

EAExit(s, consent, prime, r1, r2) ==
    IF prompted[s] THEN "again"
    ELSE IF ~WhichSudo THEN "nosudo"
    ELSE IF consent = "interrupt" THEN "raised"
    ELSE IF consent = "no" THEN "declined"
    ELSE IF prime = Interrupted THEN "cancelled"
    ELSE IF prime.returncode # 0 THEN "failed"
    ELSE IF SelectRefreshCommand(r1, r2).raised THEN "select_raised"
    ELSE IF SelectRefreshCommand(r1, r2).cmd = NoCmd THEN "norefresh"
    ELSE "started"

\* SudoSession.ensure_active on session s, as one step.
EnsureActive(s, consent, prime, r1, r2) ==
    LET exit == EAExit(s, consent, prime, r1, r2)
        sel == SelectRefreshCommand(r1, r2)
        asked == exit \notin {"again", "nosudo"}
        primed == exit \in {"cancelled", "failed", "select_raised",
                            "norefresh", "started"}
        ok == exit \in {"select_raised", "norefresh", "started"}
        selected == exit \in {"norefresh", "started"}
    IN /\ eaCalls' = [eaCalls EXCEPT ![s] = @ + 1]
       /\ prompted' = IF exit = "again" THEN prompted ELSE MarkPrompted(s)
       /\ promptCount' = [promptCount EXCEPT ![s] = IF asked THEN @ + 1 ELSE @]
       /\ primeCount' = [primeCount EXCEPT ![s] = IF primed THEN @ + 1 ELSE @]
       /\ enabled' = [enabled EXCEPT ![s] = IF ok THEN TRUE ELSE @]
       /\ refresh_cmd' = [refresh_cmd EXCEPT ![s] =
                             IF selected THEN sel.cmd ELSE @]
       /\ selectRuns' = [selectRuns EXCEPT ![s] = IF ok THEN @ + sel.runs ELSE @]
       /\ thread' = [thread EXCEPT ![s] = IF exit = "started" THEN TRUE ELSE @]
       /\ tstate' = [tstate EXCEPT ![s] = IF exit = "started" THEN "wait" ELSE @]
       /\ startCount' = [startCount EXCEPT ![s] = IF exit = "started" THEN @ + 1 ELSE @]
       /\ lastCall' = IF exit \in {"raised", "select_raised"}
                      THEN "ea_raised" ELSE "ea_returned"
       /\ answers' = [answers EXCEPT ![s] =
                         IF asked
                         THEN [consent |-> consent, prime |-> Seen(prime),
                               probe |-> Seen(r1), plain |-> Seen(r2)]
                         ELSE @]
       /\ UNCHANGED <<stop_event, result, running, is_stopped, enabledAtCall,
                      failures>>

\* The module has dropped a session whose join() had been interrupted while
\* its refresh thread was running: the thread object is marked stopped and
\* the module holds another session or none.
Late == \E s \in SIDs : is_stopped[s] /\ s # GLOBAL_SESSION

\* The calls made on the module's session.
LateCalls ==
    IF GLOBAL_SESSION = NoSession THEN 0
    ELSE eaCalls[GLOBAL_SESSION] + closeCalls[GLOBAL_SESSION]

\* ------------------------------------------------------ the refresh thread
\* The timed acquire inside stop_event.wait(self.refresh_interval) times
\* out: the event was not set when wait() was entered and set() has not
\* notified it.
T_Elapse(s) ==
    /\ mainpc # "exited"
    /\ tstate[s] = "wait"
    /\ ~stop_event[s]
    /\ tstate' = [tstate EXCEPT ![s] = "due"]
    /\ UNCHANGED <<sudoPresent, proc, flowv, fields, result, running,
                   is_stopped, modv, fg, mainv, counts, hist>>

\* stop_event.wait() returns False after the timeout, whether or not set()
\* has run since, and the loop body, which does not look at the event,
\* starts the refresh command.  MaxTicks bounds the commands one thread
\* runs, MaxLateTicks those of a late run.
T_Tick(s) ==
    /\ mainpc # "exited"
    /\ tstate[s] = "due"
    /\ ticks[s] < MaxTicks
    /\ Late => ticks[s] < MaxLateTicks
    /\ tstate' = [tstate EXCEPT ![s] = "run"]
    /\ running' = [running EXCEPT ![s] = refresh_cmd[s]]
    /\ ticks' = [ticks EXCEPT ![s] = @ + 1]
    /\ UNCHANGED <<sudoPresent, proc, flowv, fields, result, is_stopped, modv,
                   fg, mainv, promptCount, primeCount, selectRuns, startCount,
                   revokeCount, eaCalls, closeCalls, hist>>

\* stop_event.wait() returns True: set() notified the waiting thread, or
\* the event is set when wait() is entered.
WaitSignalled(s) ==
    tstate[s] = "signalled" \/ (tstate[s] = "wait" /\ stop_event[s])

\* The while condition fails and _refresh_loop returns.
T_Stop(s) ==
    /\ mainpc # "exited"
    /\ WaitSignalled(s)
    /\ tstate' = [tstate EXCEPT ![s] = "cancelled"]
    /\ UNCHANGED <<sudoPresent, proc, flowv, fields, result, running,
                   is_stopped, modv, fg, mainv, counts, hist>>

\* What the refresh command gets as standard input: subprocess.run is given
\* stdout and stderr and no stdin, so the child inherits the terminal.
RefreshStdin == "inherited"

\* A sudo command that may ask for a password: it has input to ask on and no
\* -n option.
CanPrompt(cmd) ==
    /\ RefreshStdin = "inherited"
    /\ \A i \in 1..Len(cmd) : cmd[i] # "-n"

\* The refresh command finds no valid timestamp and waits for a password
\* inside subprocess.run.
T_Block(s) ==
    /\ mainpc # "exited"
    /\ tstate[s] = "run"
    /\ CanPrompt(running[s])
    /\ tstate' = [tstate EXCEPT ![s] = "blocked"]
    /\ UNCHANGED <<sudoPresent, proc, flowv, fields, result, running,
                   is_stopped, modv, fg, mainv, counts, hist>>

\* subprocess.run of the refresh command returns r.
T_Return(s, r) ==
    /\ mainpc # "exited"
    /\ tstate[s] \in {"run", "blocked"}
    /\ tstate' = [tstate EXCEPT ![s] = "got"]
    /\ result' = [result EXCEPT ![s] = r]
    /\ failures' = [failures EXCEPT ![s] = IF r.returncode # 0 THEN @ + 1 ELSE @]
    /\ UNCHANGED <<sudoPresent, proc, flowv, fields, running, is_stopped, modv,
                   fg, mainv, counts, answers, enabledAtCall>>

\* The loop body after subprocess.run, without the fallback branch.
HandleResult_NoFallback(s) ==
    /\ tstate[s] = "got"
    /\ IF result[s].returncode = 0
       THEN /\ tstate' = [tstate EXCEPT ![s] = "wait"]
            /\ UNCHANGED <<refresh_cmd, enabled>>
       ELSE /\ tstate' = [tstate EXCEPT ![s] = "expired"]
            /\ enabled' = [enabled EXCEPT ![s] = FALSE]
            /\ UNCHANGED refresh_cmd
    /\ result' = [result EXCEPT ![s] = NoResult]
    /\ running' = [running EXCEPT ![s] = NoCmd]

\* The loop body after subprocess.run, going on after a failure.
HandleResult_Retry(s) ==
    /\ tstate[s] = "got"
    /\ IF result[s].returncode = 0
       THEN /\ tstate' = [tstate EXCEPT ![s] = "wait"]
            /\ UNCHANGED <<refresh_cmd, enabled>>
       ELSE IF IsOptionUnsupported(result[s].stderr) /\ refresh_cmd[s] # CmdPlain
       THEN /\ refresh_cmd' = [refresh_cmd EXCEPT ![s] = CmdPlain]
            /\ tstate' = [tstate EXCEPT ![s] = "wait"]
            /\ UNCHANGED enabled
       ELSE /\ tstate' = [tstate EXCEPT ![s] = "wait"]
            /\ enabled' = [enabled EXCEPT ![s] = FALSE]
            /\ UNCHANGED refresh_cmd
    /\ result' = [result EXCEPT ![s] = NoResult]
    /\ running' = [running EXCEPT ![s] = NoCmd]

\* The loop body after subprocess.run, falling back whatever is selected.
HandleResult_AlwaysFallback(s) ==
    /\ tstate[s] = "got"
    /\ IF result[s].returncode = 0
       THEN /\ tstate' = [tstate EXCEPT ![s] = "wait"]
            /\ UNCHANGED <<refresh_cmd, enabled>>
       ELSE IF IsOptionUnsupported(result[s].stderr)
       THEN /\ refresh_cmd' = [refresh_cmd EXCEPT ![s] = CmdPlain]
            /\ tstate' = [tstate EXCEPT ![s] = "wait"]
            /\ UNCHANGED enabled
       ELSE /\ tstate' = [tstate EXCEPT ![s] = "expired"]
            /\ enabled' = [enabled EXCEPT ![s] = FALSE]
            /\ UNCHANGED refresh_cmd
    /\ result' = [result EXCEPT ![s] = NoResult]
    /\ running' = [running EXCEPT ![s] = NoCmd]

\* The loop body of _refresh_loop after subprocess.run has returned.
HandleResult(s) ==
    /\ tstate[s] = "got"
    /\ IF result[s].returncode = 0
       THEN /\ tstate' = [tstate EXCEPT ![s] = "wait"]
            /\ UNCHANGED <<refresh_cmd, enabled>>
       ELSE IF IsOptionUnsupported(result[s].stderr) /\ refresh_cmd[s] # CmdPlain
       THEN /\ refresh_cmd' = [refresh_cmd EXCEPT ![s] = CmdPlain]
            /\ tstate' = [tstate EXCEPT ![s] = "wait"]
            /\ UNCHANGED enabled
       ELSE /\ tstate' = [tstate EXCEPT ![s] = "expired"]
            /\ enabled' = [enabled EXCEPT ![s] = FALSE]
            /\ UNCHANGED refresh_cmd
    /\ result' = [result EXCEPT ![s] = NoResult]
    /\ running' = [running EXCEPT ![s] = NoCmd]

T_Handle(s) ==
    /\ mainpc # "exited"
    /\ HandleResult(s)
    /\ UNCHANGED <<sudoPresent, proc, flowv, prompted, stop_event, thread,
                   is_stopped, modv, fg, mainv, counts, hist>>

\* --------------------------------------------------------- close(), by step
\* Session s stops existing when close() returns to caller c:
\* shutdown_sudo_session drops the only reference to it (_GLOBAL_SESSION = None)
\* and no running thread holds it.
Dropped(s, c) == c = "shutdown" /\ tstate[s] \notin Alive

\* Field f with the entry of session s gone (back at the value v that an
\* object not yet constructed has) if the session is dropped.
Collect(f, s, c, v) == IF Dropped(s, c) THEN [f EXCEPT ![s] = v] ELSE f

\* What follows the return of close() on session s to caller c: the client
\* goes on, shutdown_sudo_session clears _GLOBAL_SESSION, main() ends.  gs is
\* what _GLOBAL_SESSION holds at the call.
FinishCall(s, c, gs) ==
    /\ pc' = "idle"
    /\ cur' = NoSession
    /\ caller' = "none"
    /\ lastCall' = "close_returned"
    /\ GLOBAL_SESSION' = IF c = "shutdown" THEN NoSession ELSE gs
    /\ mainpc' = IF c = "main" THEN "exited" ELSE mainpc
    /\ prompted' = Collect(prompted, s, c, FALSE)
    /\ refresh_cmd' = Collect(refresh_cmd, s, c, CmdProbe)
    /\ tstate' = Collect(tstate, s, c, "none")
    /\ is_stopped' = Collect(is_stopped, s, c, FALSE)
    /\ promptCount' = Collect(promptCount, s, c, 0)
    /\ primeCount' = Collect(primeCount, s, c, 0)
    /\ selectRuns' = Collect(selectRuns, s, c, 0)
    /\ startCount' = Collect(startCount, s, c, 0)
    /\ ticks' = Collect(ticks, s, c, 0)
    /\ eaCalls' = Collect(eaCalls, s, c, 0)
    /\ answers' = Collect(answers, s, c, NoAnswers)
    /\ enabledAtCall' = FALSE
    /\ failures' = Collect(failures, s, c, 0)
    /\ UNCHANGED <<result, running>>

\* What follows a KeyboardInterrupt inside close() on session s: close() has
\* no except clause, so the exception leaves it, and shutdown_sudo_session
\* and main() with it; _GLOBAL_SESSION is not cleared.  stopped is what the
\* thread object's _is_stopped is afterwards.
RaiseCall(s, c, stopped) ==
    /\ pc' = "idle"
    /\ cur' = NoSession
    /\ caller' = "none"
    /\ lastCall' = "close_raised"
    /\ mainpc' = IF c = "main" THEN "exited" ELSE mainpc
    /\ enabledAtCall' = FALSE
    /\ is_stopped' = [is_stopped EXCEPT ![s] = stopped]
    /\ UNCHANGED <<GLOBAL_SESSION, tstate, result, running, promptCount,
                   primeCount, selectRuns, startCount, ticks, eaCalls,
                   closeCalls, answers, failures>>

\* Thread.is_alive(): the thread has not ended and the thread object is not
\* marked stopped.
IsAlive(s) == tstate[s] \in Alive /\ ~is_stopped[s]

\* close() on session s, the calls[s]-th on it, up to
\* `if self._thread and self._thread.is_alive()`.
CloseBegin(s, c, gs, calls) ==
    IF ~WhichSudo
    THEN /\ FinishCall(s, c, gs)
         /\ closeCalls' = Collect(calls, s, c, 0)
         /\ revokeCount' = Collect(revokeCount, s, c, 0)
         /\ UNCHANGED <<enabled, stop_event, thread>>
    ELSE /\ pc' = IF thread[s] /\ IsAlive(s)
                  THEN "close_set"
                  ELSE "close_test"
         /\ cur' = s
         /\ caller' = c
         /\ GLOBAL_SESSION' = gs
         /\ closeCalls' = calls
         /\ enabledAtCall' = enabled[s]
         /\ UNCHANGED <<lastCall, mainpc, fields, task, promptCount, primeCount,
                        selectRuns, startCount, revokeCount, ticks, eaCalls,
                        answers, failures>>

\* self._stop_event.set(): the flag is set and a thread waiting in wait()
\* whose acquire has not timed out is notified.
Close_Set ==
    /\ pc = "close_set"
    /\ stop_event' = [stop_event EXCEPT ![cur] = TRUE]
    /\ tstate' = [tstate EXCEPT ![cur] = IF @ = "wait" THEN "signalled" ELSE @]
    /\ pc' = "close_join"
    /\ UNCHANGED <<sudoPresent, proc, flowv, prompted, enabled, thread,
                   refresh_cmd, result, running, is_stopped, modv, cur, caller,
                   lastCall, mainv, counts, hist>>

\* self._thread.join() returns.
JoinDone(s) == ~IsAlive(s)

Close_Join ==
    /\ pc = "close_join"
    /\ JoinDone(cur)
    /\ pc' = "close_test"
    /\ UNCHANGED <<sudoPresent, proc, flowv, fields, task, modv, cur, caller, lastCall,
                   mainv, counts, hist>>

\* self._thread.join() is interrupted while it waits for the thread:
\* Thread._wait_for_tstate_lock finds the lock locked (the running thread
\* holds it), releases it and marks the thread object stopped before the
\* KeyboardInterrupt goes on.
Close_JoinInterrupted ==
    /\ pc = "close_join"
    /\ ~JoinDone(cur)
    /\ RaiseCall(cur, caller, TRUE)
    /\ UNCHANGED <<sudoPresent, proc, flowv, fields, revokeCount, nSessions,
                   mainSession, mainError>>

\* `if self._enabled` before the revocation command.
ShouldRevoke_Always(s) == TRUE

ShouldRevoke_Never(s) == FALSE

ShouldRevoke(s) == enabled[s]

\* Lines 123-125 and the return of close() on the session being closed.
CloseReset ==
    /\ revokeCount' = Collect(revokeCount, cur, caller, 0)
    /\ thread' = [thread EXCEPT ![cur] = FALSE]
    /\ enabled' = [enabled EXCEPT ![cur] = FALSE]
    /\ stop_event' = [stop_event EXCEPT ![cur] = FALSE]
    /\ closeCalls' = Collect(closeCalls, cur, caller, 0)
    /\ FinishCall(cur, caller, GLOBAL_SESSION)

\* `if self._enabled:` - the revocation command is started, or close() goes
\* on to the reset and returns.
Close_Test ==
    /\ pc = "close_test"
    /\ IF ShouldRevoke(cur)
       THEN /\ pc' = "close_revoke"
            /\ revokeCount' = [revokeCount EXCEPT ![cur] = @ + 1]
            /\ UNCHANGED <<fields, task, GLOBAL_SESSION, cur, caller, lastCall,
                           mainpc, promptCount, primeCount, selectRuns,
                           startCount, ticks, eaCalls, closeCalls, hist>>
       ELSE CloseReset
    /\ UNCHANGED <<sudoPresent, proc, flowv, nSessions, mainSession, mainError>>

\* close() waits in subprocess.run(["sudo", "-k"]): the command returns r,
\* which is not read, and the reset follows; or a KeyboardInterrupt leaves
\* close() before the reset.
Close_Revoke(r) ==
    /\ pc = "close_revoke"
    /\ IF r = Interrupted
       THEN /\ RaiseCall(cur, caller, is_stopped[cur])
            /\ UNCHANGED <<fields, revokeCount>>
       ELSE CloseReset
    /\ UNCHANGED <<sudoPresent, proc, flowv, nSessions, mainSession, mainError>>

\* ------------------------------------------------ the foreground's calls
\* The callers of the session run before main() is entered; main() itself
\* never reaches the menu that would call them.
\* get_sudo_session().close(): a caller closes the module's session itself;
\* get_sudo_session() constructs the session if there is none.
SessionClose ==
    LET fresh == GLOBAL_SESSION = NoSession
        s == IF fresh THEN nSessions + 1 ELSE GLOBAL_SESSION
    IN /\ pc = "idle"
       /\ mainpc = "notstarted"
       /\ fresh => nSessions < MaxSessions
       /\ closeCalls[s] < MaxCalls
       /\ Late => LateCalls < MaxLateCalls
       /\ nSessions' = IF fresh THEN nSessions + 1 ELSE nSessions
       /\ CloseBegin(s, "client", s, [closeCalls EXCEPT ![s] = @ + 1])
       /\ UNCHANGED <<sudoPresent, proc, flowv, mainSession, mainError>>

\* get_sudo_session() constructing a session at every call.
GetAndEnsure_AlwaysNew(consent, prime, r1, r2) ==
    LET s == nSessions + 1
    IN /\ pc = "idle"
       /\ nSessions < MaxSessions
       /\ GLOBAL_SESSION' = s
       /\ nSessions' = nSessions + 1
       /\ EnsureActive(s, consent, prime, r1, r2)
       /\ UNCHANGED <<sudoPresent, proc, pc, cur, caller, mainv, revokeCount, ticks,
                      closeCalls>>

\* ensure_sudo_session(): get_sudo_session() constructs the session if there
\* is none, then ensure_active() runs on it.  MaxSessions bounds the objects
\* constructed.
GetAndEnsure(consent, prime, r1, r2) ==
    LET fresh == GLOBAL_SESSION = NoSession
        s == IF fresh THEN nSessions + 1 ELSE GLOBAL_SESSION
    IN /\ pc = "idle"
       /\ fresh => nSessions < MaxSessions
       /\ GLOBAL_SESSION' = s
       /\ nSessions' = IF fresh THEN nSessions + 1 ELSE nSessions
       /\ EnsureActive(s, consent, prime, r1, r2)
       /\ UNCHANGED <<sudoPresent, proc, pc, cur, caller, mainv, revokeCount, ticks,
                      closeCalls>>

\* ensure_sudo_session() called by a client; MaxCalls bounds the calls on one
\* session, MaxLateCalls those of a late run.
EnsureSudoSession(consent, prime, r1, r2) ==
    /\ mainpc = "notstarted"
    /\ GLOBAL_SESSION # NoSession => eaCalls[GLOBAL_SESSION] < MaxCalls
    /\ Late => LateCalls < MaxLateCalls
    /\ GetAndEnsure(consent, prime, r1, r2)
    /\ UNCHANGED flowv

\* shutdown_sudo_session()
ShutdownSudoSession ==
    /\ pc = "idle"
    /\ mainpc = "notstarted"
    /\ IF GLOBAL_SESSION = NoSession
       THEN /\ lastCall' = "shutdown_returned"
            /\ UNCHANGED <<GLOBAL_SESSION, pc, cur, caller, mainpc, fields,
                           task, counts, hist>>
       ELSE /\ closeCalls[GLOBAL_SESSION] < MaxCalls
            /\ Late => LateCalls < MaxLateCalls
            /\ CloseBegin(GLOBAL_SESSION, "shutdown", GLOBAL_SESSION,
                          [closeCalls EXCEPT ![GLOBAL_SESSION] = @ + 1])
    /\ UNCHANGED <<sudoPresent, proc, flowv, nSessions, mainSession, mainError>>

\* ----------------------------------------------------------------- main()
\* sudo_session = SudoSession()
Main_Start ==
    /\ pc = "idle"
    /\ mainpc = "notstarted"
    /\ nSessions < MaxSessions
    /\ mainSession' = nSessions + 1
    /\ nSessions' = nSessions + 1
    /\ mainpc' = "try"
    /\ UNCHANGED <<sudoPresent, proc, flowv, fields, task, GLOBAL_SESSION, fg, mainError,
                   counts, hist>>

\* The try block.  SudoSession has no method maybe_enable, so the block ends
\* with AttributeError at that call, or with a KeyboardInterrupt before it,
\* and MainMenu().run() is not reached.
Main_Try(e) ==
    /\ mainpc = "try"
    /\ mainError' = e
    /\ mainpc' = "finally"
    /\ UNCHANGED <<sudoPresent, proc, flowv, fields, task, modv, fg, mainSession, counts,
                   hist>>

\* finally: sudo_session.close()
Main_Finally ==
    /\ mainpc = "finally"
    /\ pc = "idle"
    /\ CloseBegin(mainSession, "main", GLOBAL_SESSION,
                  [closeCalls EXCEPT ![mainSession] = @ + 1])
    /\ UNCHANGED <<sudoPresent, proc, flowv, nSessions, mainSession, mainError>>

\* ------------------------------------------------------------------- spec
\* The inputs of one ensure_active() call: the consent answer, the result of
\* the priming command, and the results of the two commands that
\* _select_refresh_command may try.  An input the call never reads is left
\* at NoResult.
EAInputs ==
    {<<c, NoResult, NoResult, NoResult>> : c \in ConsentOutcomes \ {"yes"}}
    \cup {<<"yes", p, NoResult, NoResult>> :
             p \in {r \in Results : r.returncode # 0} \cup {Interrupted}}
    \cup {<<"yes", p, r1, NoResult>> :
             p \in {r \in Results : r.returncode = 0},
             r1 \in {r \in Results : r.returncode = 0
                                     \/ ~IsOptionUnsupported(r.stderr)}
                    \cup {Interrupted}}
    \cup {<<"yes", p, r1, r2>> :
             p \in {r \in Results : r.returncode = 0},
             r1 \in {r \in Results : r.returncode # 0
                                     /\ IsOptionUnsupported(r.stderr)},
             r2 \in Results \cup {Interrupted}}

Foreground ==
    \/ \E in \in EAInputs : EnsureSudoSession(in[1], in[2], in[3], in[4])
    \/ SessionClose
    \/ ShutdownSudoSession
    \/ Close_Set
    \/ Close_Join
    \/ Close_JoinInterrupted
    \/ Close_Test
    \/ \E r \in Results \cup {Interrupted} : Close_Revoke(r)
    \/ Main_Start
    \/ \E e \in {"AttributeError", "KeyboardInterrupt"} : Main_Try(e)
    \/ Main_Finally

RefreshThread(s) ==
    \/ T_Elapse(s)
    \/ T_Tick(s)
    \/ T_Stop(s)
    \/ T_Block(s)
    \/ \E r \in Results : T_Return(s, r)
    \/ T_Handle(s)

Next == Foreground \/ \E s \in SIDs : RefreshThread(s)

Spec == Init /\ [][Next]_vars

\* The scheduler runs a runnable thread: a refresh thread whose wait has been
\* signalled returns from it, and the foreground goes on inside close().  No
\* fairness for the passing of time (T_Elapse, T_Tick) or for the return of a
\* refresh command.
FairSpec ==
    /\ Spec
    /\ \A s \in SIDs : WF_vars(T_Stop(s))
    /\ WF_vars(Close_Set)
    /\ WF_vars(Close_Join)
    /\ WF_vars(Close_Test)
    /\ WF_vars(\E r \in Results : Close_Revoke(r))

\* ------------------------------------------- crowsnest's apk flows
\* MaxFlows bounds the flows one process runs.
MaxFlows == 2

InitSystems == {"systemd", "openrc"}

\* Statements that call ensure_sudo_session(): in _install_crowsnest_apk, in
\* _write_root_file, in _ensure_video_group_membership and in the path loop
\* of _remove_crowsnest_apk.
EnsureLabels == {"i_ensure", "w_ensure", "v_ensure", "r_ensure1", "r_ensure2"}

\* remove_with_sudo(file) in remove_system_service.
RemoveWithSudoLabels == {"r_unit"}

\* Statements that run a sudo command.
SudoLabels ==
    {"i_install", "w_tee", "v_usermod", "i_service", "i_reload", "i_enable",
     "i_start", "r_stop", "r_disable", "r_reload", "r_reset", "r_rm1",
     "r_rm2"} \cup RemoveWithSudoLabels

\* Statements that run no sudo command: directory creation, existence
\* tests, template reads, file writes, the build, the group query, the
\* final cleanup.
LocalLabels ==
    {"i_dirs", "i_logrotate", "i_env", "i_video", "i_template", "r_service",
     "r_path1", "r_path2", "r_cleanup"}

\* The statement after label l when l ends without an exception.
AfterOk(l) ==
    CASE l = "i_ensure" -> "i_install"
      [] l = "i_install" -> "i_logrotate"
      [] l = "w_ensure" -> "w_tee"
      [] l = "w_tee" -> "i_env"
      [] l = "v_ensure" -> "v_usermod"
      [] l = "v_usermod" -> "i_template"
      [] l = "i_service" -> "i_reload"
      [] l = "i_reload" -> "i_enable"
      [] l = "i_enable" -> "i_start"
      [] l = "i_start" -> "done"
      [] l = "r_stop" -> "r_disable"
      [] l = "r_disable" -> "r_unit"
      [] l = "r_unit" -> "r_reload"
      [] l = "r_reload" -> "r_reset"
      [] l = "r_reset" -> "r_path1"
      [] l = "r_ensure1" -> "r_rm1"
      [] l = "r_rm1" -> "r_path2"
      [] l = "r_ensure2" -> "r_rm2"
      [] l = "r_rm2" -> "r_cleanup"

\* The statement after a sudo command at label l that raised (non-zero exit
\* under check=True, or no sudo executable): _ensure_video_group_membership
\* catches it, _remove_crowsnest_apk catches what remove_system_service
\* re-raises, everything else leaves the flow.
AfterFail(l) ==
    CASE l = "v_usermod" -> "i_template"
      [] l \in {"r_stop", "r_disable", "r_unit", "r_reload", "r_reset"} ->
            "r_path1"
      [] OTHER -> "raised"

\* The statements that can follow the local statement l: _ensure_directories
\* can raise, reading a template can raise, the group query `id -nG` can be
\* interrupted (its KeyboardInterrupt is not caught), the systemd unit is
\* rendered from a template and the OpenRC script from a string; in the
\* removal, path.exists() raises PermissionError, which nothing catches, in
\* a directory the caller may not search.
LocalNext(l) ==
    CASE l = "i_dirs" -> {"i_ensure", "raised"}
      [] l = "i_logrotate" -> {"w_ensure", "i_env", "raised"}
      [] l = "i_env" -> {"i_video", "raised"}
      [] l = "i_video" -> {"v_ensure", "i_template", "raised"}
      [] l = "i_template" ->
            IF init_system = "systemd" THEN {"i_service", "raised"}
            ELSE {"i_service"}
      [] l = "r_service" ->
            IF init_system = "systemd" THEN {"r_stop", "r_path1"}
            ELSE {"r_path1"}
      [] l = "r_path1" -> {"r_ensure1", "r_path2", "raised"}
      [] l = "r_path2" -> {"r_ensure2", "r_cleanup", "raised"}
      [] l = "r_cleanup" -> {"done", "raised"}

\* The flow goes on at statement l, or is over.
FlowGoto(l) ==
    IF l \in {"done", "raised"}
    THEN flow' = "none" /\ fpc' = "none" /\ flowsRun' = flowsRun + 1
    ELSE fpc' = l /\ UNCHANGED <<flow, flowsRun>>

\* install_crowsnest() reaches _install_crowsnest_apk(init_system), or
\* remove_crowsnest() reaches _remove_crowsnest_apk(init_system).
Flow_Start(f, isys) ==
    /\ flow = "none"
    /\ pc = "idle"
    /\ mainpc = "notstarted"
    /\ flowsRun < MaxFlows
    /\ init_system \in {"unknown", isys}
    /\ init_system' = isys
    /\ flow' = f
    /\ fpc' = IF f = "install" THEN "i_dirs" ELSE "r_service"
    /\ UNCHANGED <<sudoPresent, proc, fields, task, modv, fg, mainv, counts, hist,
                   flowsRun>>

\* A statement ensure_sudo_session(); a KeyboardInterrupt out of it ends the
\* flow.
Flow_Ensure(consent, prime, r1, r2) ==
    /\ fpc \in EnsureLabels
    /\ GetAndEnsure(consent, prime, r1, r2)
    /\ FlowGoto(IF lastCall' = "ea_raised" THEN "raised" ELSE AfterOk(fpc))
    /\ UNCHANGED init_system

\* A statement run(["sudo", ...]): it returns, or raises
\* CalledProcessError or, without a sudo executable, FileNotFoundError,
\* which the except clauses route, or is interrupted while the command
\* runs, and the KeyboardInterrupt, which no except clause of the flows
\* catches, ends the flow.
Flow_Sudo(o) ==
    /\ fpc \in SudoLabels
    /\ o \in {"ok", "interrupt"} => sudoPresent
    /\ FlowGoto(CASE o = "ok" -> AfterOk(fpc)
                  [] o = "fail" -> AfterFail(fpc)
                  [] o = "interrupt" -> "raised")
    /\ UNCHANGED <<sudoPresent, proc, fields, task, modv, fg, mainv, counts, hist,
                   init_system>>

\* A statement that runs no sudo command.
Flow_Local(l) ==
    /\ fpc \in LocalLabels
    /\ l \in LocalNext(fpc)
    /\ FlowGoto(l)
    /\ UNCHANGED <<sudoPresent, proc, fields, task, modv, fg, mainv, counts, hist,
                   init_system>>

FlowLabels ==
    EnsureLabels \cup SudoLabels \cup LocalLabels \cup {"done", "raised"}

\* The refresh thread of a session the flows enabled; no flow closes it.
FlowThread(s) ==
    \/ T_Elapse(s)
    \/ T_Tick(s)
    \/ T_Block(s)
    \/ \E r \in Results : T_Return(s, r)
    \/ T_Handle(s)

FlowNext ==
    \/ \E f \in {"install", "remove"}, isys \in InitSystems : Flow_Start(f, isys)
    \/ \E in \in EAInputs : Flow_Ensure(in[1], in[2], in[3], in[4])
    \/ \E o \in {"ok", "fail", "interrupt"} : Flow_Sudo(o)
    \/ \E l \in FlowLabels : Flow_Local(l)
    \/ \E s \in SIDs : FlowThread(s)

FlowSpec == Init /\ [][FlowNext]_vars

\* ------------------------------------------------------------------ claims
\* A sudo command of a flow is run in this step.
SudoIssued == sudoPresent /\ fpc \in SudoLabels /\ fpc' # fpc

\* An ensure_sudo_session() call of this process has returned.
EnsureReturned ==
    GLOBAL_SESSION # NoSession /\ eaCalls[GLOBAL_SESSION] >= 1

\* ----------------------------------------------------------------- claims
\* A step in which ensure_active() is called on session s.
EACalled(s) == eaCalls'[s] > eaCalls[s]

\* A step in which a close() that went past the sudo check returns.
CloseReturns ==
    /\ pc \in {"close_test", "close_revoke"}
    /\ pc' = "idle"
    /\ lastCall' = "close_returned"

\* C1: on one session the consent prompt is shown at most once, the priming
\* command is run at most once and at most one refresh thread is started; an
\* ensure_active() call after the first shows no prompt, runs no command and
\* starts no thread.
C1_PromptOnce ==
    [][\A s \in SIDs :
          /\ promptCount'[s] <= 1
          /\ primeCount'[s] <= 1
          /\ startCount'[s] <= 1
          /\ (eaCalls[s] >= 1 /\ EACalled(s)) =>
                /\ promptCount'[s] = promptCount[s]
                /\ primeCount'[s] = primeCount[s]
                /\ selectRuns'[s] = selectRuns[s]
                /\ startCount'[s] = startCount[s]
                /\ tstate'[s] = tstate[s]
                /\ lastCall' = "ea_returned"]_vars

C1_Witness ==
    \E s \in SIDs :
        /\ eaCalls[s] = 2
        /\ promptCount[s] = 1
        /\ primeCount[s] = 1
        /\ startCount[s] = 1

\* C2: when main() has ended, every session that was enabled during the run is
\* closed: no refresh thread of any session is still alive and no session is
\* still enabled (primed and not revoked).
C2_ExitClosesActivatedSession ==
    mainpc = "exited" =>
        \A s \in SIDs : tstate[s] \notin Alive /\ ~enabled[s]

\* C3: no ensure_active() call and no close() call ends by raising to its
\* caller, whatever the consent prompt, the priming command and the
\* revocation command do.
C3_NeverRaises == lastCall \notin {"ea_raised", "close_raised"}

\* C4: close() leaves the session as the constructor makes it, and the next
\* ensure_active() on it shows the prompt again when sudo is installed.
C4_CloseResetsAll ==
    [][/\ (CloseReturns /\ caller = "client") =>
              /\ ~prompted'[cur]
              /\ ~enabled'[cur]
              /\ ~thread'[cur]
              /\ ~stop_event'[cur]
              /\ refresh_cmd'[cur] = CmdProbe
       /\ \A s \in SIDs :
              (lastCall = "close_returned" /\ sudoPresent /\ EACalled(s)) =>
                  promptCount'[s] = promptCount[s] + 1]_vars

\* C5: a refresh command that exits non-zero without the unsupported-option
\* text makes the thread stop with enabled false, and a thread stopped this
\* way stays stopped: it is never alive again, runs no further command, and
\* enabled stays false.
C5_ExpiryTerminal ==
    [][\A s \in SIDs :
          /\ (/\ tstate[s] = "got"
              /\ result[s].returncode # 0
              /\ ~IsOptionUnsupported(result[s].stderr)
              /\ tstate'[s] # "got") =>
                 (tstate'[s] = "expired" /\ ~enabled'[s])
          /\ tstate[s] = "expired" =>
                 /\ tstate'[s] \notin Alive
                 /\ ticks'[s] <= ticks[s]
                 /\ ~enabled'[s]]_vars

C5_Witness ==
    \E s \in SIDs :
        /\ tstate[s] = "expired"
        /\ ticks[s] >= 2
        /\ ~enabled[s]
        /\ lastCall = "ea_returned"

\* C6: when the command of a tick is the probe `sudo -n -v` and it fails with
\* the unsupported-option text, the thread selects `sudo -v`, goes back to
\* its wait and leaves _enabled as it is (true, unless a close() has reset
\* the session meanwhile), and every tick runs the command that is selected
\* when it starts.
C6_FallbackKeepsRunning ==
    [][\A s \in SIDs :
          /\ (/\ tstate[s] = "got"
              /\ running[s] = CmdProbe
              /\ result[s].returncode # 0
              /\ IsOptionUnsupported(result[s].stderr)
              /\ tstate'[s] # "got") =>
                 /\ refresh_cmd'[s] = CmdPlain
                 /\ tstate'[s] = "wait"
                 /\ enabled'[s] = enabled[s]
          /\ (tstate[s] = "due" /\ tstate'[s] = "run") =>
                 running'[s] = refresh_cmd[s]]_vars

\* The setup selected the probe with one trial command, and a later tick
\* runs `sudo -v`.
C6_Witness ==
    \E s \in SIDs :
        /\ selectRuns[s] = 1
        /\ tstate[s] = "run"
        /\ running[s] = CmdPlain
        /\ ticks[s] >= 2
        /\ enabled[s]

\* C7: when close() returns, the refresh thread of the session is not alive,
\* and a thread that has exited is never alive again, so it runs no command
\* and writes nothing after the return.
C7_CloseJoinsThread ==
    [][/\ CloseReturns => tstate'[cur] \notin Alive
       /\ \A s \in SIDs :
              tstate[s] \in {"cancelled", "expired"} =>
                  (tstate'[s] \notin Alive /\ ticks'[s] <= ticks[s])]_vars

\* C8: once close() has set the stop event while the refresh thread is in
\* its interval wait, the thread starts no further refresh command, and
\* close() returns even if the interval never runs out.
C8_CloseInterruptsWait ==
    /\ [][\A s \in SIDs :
             (stop_event[s] /\ tstate[s] \in {"wait", "signalled", "due"}) =>
                 (tstate'[s] \in {"wait", "signalled", "due", "cancelled"}
                  /\ ticks'[s] = ticks[s])]_vars
    /\ (pc = "close_join" /\ tstate[cur] \in {"wait", "signalled", "due"})
           ~> (pc = "idle")

\* C9: no close() raises; at most one revocation command per session, none
\* for a session on which ensure_active() was never called; and a close()
\* that finds no live refresh thread runs no command and changes no flag.
C9_CloseWithoutTaskIsNoOp ==
    [][/\ lastCall' # "close_raised"
       /\ \A s \in SIDs :
              /\ revokeCount'[s] <= 1
              /\ eaCalls'[s] = 0 => revokeCount'[s] = 0
       /\ (CloseReturns /\ ~stop_event[cur] /\ ~Dropped(cur, caller)) =>
              /\ pc # "close_revoke"
              /\ revokeCount'[cur] = revokeCount[cur]
              /\ enabled'[cur] = enabled[cur]]_vars

\* C10: without sudo on PATH no prompt is shown, no command is run, no
\* session is enabled, no thread is started, and close() never gets past
\* its first check.
C10_NoSudoNoEffect ==
    ~sudoPresent =>
        /\ pc = "idle"
        /\ \A s \in SIDs :
               /\ promptCount[s] = 0
               /\ primeCount[s] = 0
               /\ selectRuns[s] = 0
               /\ ticks[s] = 0
               /\ revokeCount[s] = 0
               /\ ~enabled[s]
               /\ ~thread[s]
               /\ tstate[s] = "none"

C10_Witness ==
    /\ ~sudoPresent
    /\ \E s \in SIDs : eaCalls[s] >= 1 /\ closeCalls[s] >= 1

\* C11: a declined consent prompt runs no priming command and no command of
\* the refresh selection, starts no refresh thread and leaves _enabled false,
\* then and for as long as the session lives.
C11_DeclineDoesNothing ==
    \A s \in SIDs :
        answers[s].consent = "no" =>
            /\ primeCount[s] = 0
            /\ selectRuns[s] = 0
            /\ startCount[s] = 0
            /\ ~thread[s]
            /\ tstate[s] = "none"
            /\ ~enabled[s]

C11_Witness ==
    \E s \in SIDs :
        /\ answers[s].consent = "no"
        /\ promptCount[s] = 1
        /\ lastCall = "ea_returned"

\* C12: a session that was primed and whose refresh thread was started, and
\* whose refresh commands all exited 0, stays enabled, with its thread alive
\* or stopped by a close(), until a close() resets it; the close() that
\* returns from resetting it has run the revocation command exactly once,
\* and a close() after that runs none.
C12_HealthySessionStaysEnabled ==
    [][/\ \A s \in SIDs :
              (startCount'[s] = 1 /\ answers'[s].prime.returncode = 0
               /\ failures'[s] = 0 /\ thread'[s]) =>
                  /\ enabled'[s]
                  /\ tstate'[s] \in Alive \cup {"cancelled"}
       /\ (CloseReturns /\ ~Dropped(cur, caller) /\ startCount[cur] = 1
           /\ answers[cur].prime.returncode = 0 /\ failures[cur] = 0) =>
              /\ ~enabled'[cur]
              /\ (pc = "close_revoke") = thread[cur]
              /\ revokeCount'[cur] = revokeCount[cur]]_vars

C12_Witness ==
    \E s \in SIDs :
        /\ startCount[s] = 1
        /\ failures[s] = 0
        /\ ticks[s] >= 3
        /\ revokeCount[s] = 1
        /\ lastCall = "close_returned"

\* C13: after a priming command that exited non-zero the session is never
\* enabled, has no refresh thread, and no close() on it runs the revocation
\* command.
C13_FailedPrimingStaysDisabled ==
    \A s \in SIDs :
        (answers[s].consent = "yes" /\ answers[s].prime.returncode > 0) =>
            /\ ~enabled[s]
            /\ selectRuns[s] = 0
            /\ startCount[s] = 0
            /\ ~thread[s]
            /\ tstate[s] = "none"
            /\ revokeCount[s] = 0

C13_Witness ==
    \E s \in SIDs :
        /\ answers[s].consent = "yes"
        /\ answers[s].prime.returncode > 0
        /\ closeCalls[s] >= 1
        /\ lastCall = "close_returned"

\* C14: an ensure_active() whose priming command is interrupted returns
\* normally and leaves the session as a decline does: prompted, not enabled,
\* no refresh command selected, no refresh thread.
C14_InterruptedPrimingReturns ==
    [][\A s \in SIDs :
          (EACalled(s) /\ answers[s] = NoAnswers
           /\ answers'[s].prime = Interrupted) =>
              /\ lastCall' = "ea_returned"
              /\ prompted'[s]
              /\ ~enabled'[s]
              /\ refresh_cmd'[s] = refresh_cmd[s]
              /\ selectRuns'[s] = 0
              /\ startCount'[s] = 0
              /\ ~thread'[s]
              /\ tstate'[s] = "none"]_vars

C14_Witness ==
    \E s \in SIDs :
        /\ answers[s].prime = Interrupted
        /\ primeCount[s] = 1
        /\ lastCall = "ea_returned"

\* C15 as stated: a close() called on an enabled session, with sudo present,
\* runs the revocation command when it comes to its test of _enabled.
C15_CloseOfEnabledRevokes ==
    [][(pc = "close_test" /\ pc' # pc /\ sudoPresent /\ enabledAtCall) =>
           /\ pc' = "close_revoke"
           /\ revokeCount'[cur] = revokeCount[cur] + 1]_vars

\* C15, amended: a close() called on an enabled session, with sudo present,
\* runs the revocation command when it comes to its test of _enabled unless
\* a refresh command of the session's thread failed before that test; that
\* failure clears _enabled, and the close() then returns without a
\* revocation command.  A failure after the test changes nothing: the
\* command is running.
C15_CloseRevokesUnlessExpired ==
    [][/\ (pc = "close_test" /\ pc' # pc /\ sudoPresent /\ enabledAtCall) =>
              IF tstate[cur] = "expired"
              THEN /\ failures[cur] >= 1
                   /\ ~enabled[cur]
                   /\ CloseReturns
                   /\ Dropped(cur, caller) \/ revokeCount'[cur] = revokeCount[cur]
              ELSE /\ pc' = "close_revoke"
                   /\ revokeCount'[cur] = revokeCount[cur] + 1
       /\ (pc = "close_revoke" /\ pc' # pc) =>
              /\ lastCall' \in {"close_returned", "close_raised"}
              /\ Dropped(cur, caller) \/ revokeCount'[cur] = revokeCount[cur]]_vars

\* The thread of an enabled session expired while close() waited for it.
C15_Witness ==
    /\ pc = "close_test"
    /\ sudoPresent
    /\ enabledAtCall
    /\ tstate[cur] = "expired"
    /\ ~enabled[cur]

\* C16: an ensure_active() that returns with _enabled true leaves a live
\* refresh thread.
C16_EnabledImpliesThread ==
    [][\A s \in SIDs :
          (EACalled(s) /\ lastCall' = "ea_returned" /\ enabled'[s]) =>
              tstate'[s] \in Alive]_vars

\* C17: every sudo command the apk install and removal flows run comes after
\* an ensure_sudo_session() call of the same process has returned.
C17_SudoAfterEnsure == [][SudoIssued => EnsureReturned]_vars

\* C18: _enabled goes from false to true only in an ensure_active() whose
\* priming command exited 0; neither the refresh thread nor close() sets it.
C18_EnabledOnlyByPriming ==
    [][\A s \in SIDs :
          (~enabled[s] /\ enabled'[s]) =>
              /\ EACalled(s)
              /\ answers'[s].consent = "yes"
              /\ answers'[s].prime.returncode = 0
              /\ primeCount'[s] = primeCount[s] + 1]_vars

C18_Witness ==
    \E s \in SIDs :
        /\ primeCount[s] = 1
        /\ answers[s].prime.returncode = 0
        /\ ~enabled[s]
        /\ eaCalls[s] = 2
        /\ lastCall = "ea_returned"
        /\ closeCalls[s] + failures[s] >= 1

\* C19: a refresh thread is started only on a session that has no live
\* refresh thread, and at most once per session.
C19_OneThreadPerSession ==
    [][\A s \in SIDs :
          startCount'[s] > startCount[s] =>
              /\ tstate[s] \notin Alive
              /\ startCount[s] = 0]_vars

C19_Witness ==
    \E s \in SIDs :
        /\ startCount[s] = 1
        /\ eaCalls[s] = 2
        /\ closeCalls[s] = 0
        /\ tstate[s] \in Alive

\* C20: a refresh loop whose wait is ended by the stop event returns without
\* running a refresh command and without changing _enabled.
C20_StopLeavesEnabled ==
    [][\A s \in SIDs :
          (stop_event[s] /\ tstate[s] \in {"wait", "signalled", "due"}
           /\ tstate'[s] # tstate[s]) =>
              /\ tstate'[s] = "cancelled"
              /\ ticks'[s] = ticks[s]
              /\ running'[s] = NoCmd
              /\ enabled'[s] = enabled[s]
              /\ failures'[s] = failures[s]]_vars

\* C21: the foreground (ensure_active(), close()) writes _enabled or
\* _refresh_cmd of a session only while the session's refresh thread is not
\* alive; while it is alive the only writer is the thread itself, after a
\* refresh command has returned.
C21_WritersDisjoint ==
    [][\A s \in SIDs :
          (tstate[s] \in Alive
           /\ (enabled'[s] # enabled[s] \/ refresh_cmd'[s] # refresh_cmd[s])) =>
              /\ tstate[s] = "got"
              /\ eaCalls'[s] = eaCalls[s]
              /\ closeCalls'[s] = closeCalls[s]
              /\ pc' = pc]_vars

\* C22: no refresh command of the refresh thread ever waits for input.
C22_TickNeverBlocks == \A s \in SIDs : tstate[s] # "blocked"

\* C23: while a refresh thread is alive its refresh command changes only from
\* the probe `sudo -n -v` to `sudo -v`, hence at most once, and a refresh
\* command `sudo -v` that fails with an unsupported-option error ends the
\* thread with _enabled false and the command unchanged.
C23_FallbackAtMostOnce ==
    [][\A s \in SIDs :
          /\ (tstate[s] \in Alive /\ refresh_cmd'[s] # refresh_cmd[s]) =>
                 (refresh_cmd[s] = CmdProbe /\ refresh_cmd'[s] = CmdPlain)
          /\ (tstate[s] = "got" /\ tstate'[s] # "got"
              /\ result[s].returncode # 0
              /\ IsOptionUnsupported(result[s].stderr)
              /\ refresh_cmd[s] = CmdPlain) =>
                 (tstate'[s] = "expired" /\ ~enabled'[s]
                  /\ refresh_cmd'[s] = CmdPlain)]_vars

C23_Witness ==
    \E s \in SIDs :
        /\ tstate[s] = "got"
        /\ answers[s].probe.returncode = 0
        /\ refresh_cmd[s] = CmdPlain
        /\ result[s].returncode # 0
        /\ IsOptionUnsupported(result[s].stderr)
        /\ failures[s] = 2

\* C24: the ensure_active() that primed successfully selects the probe
\* `sudo -n -v` if the probe run exits 0, `sudo -v` if the probe run failed
\* with an unsupported-option error and the `sudo -v` run exits 0, and
\* otherwise selects nothing and starts no refresh thread (when one of the
\* runs is interrupted the call raises and assigns no selection).
C24_SelectByTrial ==
    [][\A s \in SIDs :
          (EACalled(s) /\ answers[s] = NoAnswers
           /\ answers'[s].prime.returncode = 0) =>
              LET a == answers'[s] IN
              IF a.probe.returncode = 0
              THEN /\ refresh_cmd'[s] = CmdProbe
                   /\ selectRuns'[s] = 1
                   /\ tstate'[s] = "wait"
              ELSE IF /\ IsOptionUnsupported(a.probe.stderr)
                      /\ a.plain.returncode = 0
              THEN /\ refresh_cmd'[s] = CmdPlain
                   /\ selectRuns'[s] = 2
                   /\ tstate'[s] = "wait"
              ELSE IF \/ a.probe = Interrupted
                      \/ /\ IsOptionUnsupported(a.probe.stderr)
                         /\ a.plain = Interrupted
              THEN /\ refresh_cmd'[s] = refresh_cmd[s]
                   /\ lastCall' = "ea_raised"
                   /\ startCount'[s] = 0
                   /\ tstate'[s] = "none"
              ELSE /\ refresh_cmd'[s] = NoCmd
                   /\ startCount'[s] = 0
                   /\ tstate'[s] = "none"]_vars

C24_Witness ==
    \E s \in SIDs :
        /\ lastCall = "ea_returned"
        /\ answers[s].probe.returncode = 1
        /\ IsOptionUnsupported(answers[s].probe.stderr)
        /\ answers[s].plain.returncode = 0
        /\ refresh_cmd[s] = CmdPlain
        /\ selectRuns[s] = 2
        /\ tstate[s] = "wait"
        /\ ticks[s] = 0

\* C25: the module's session changes only when shutdown_sudo_session() has
\* closed it and clears it; a call that finds no session constructs a new
\* object, which has not prompted; ensure_active() is called on the module's
\* session only; shutdown_sudo_session() without a session changes nothing.
C25_SingletonBetweenShutdowns ==
    [][/\ (GLOBAL_SESSION # NoSession /\ GLOBAL_SESSION' # GLOBAL_SESSION) =>
              /\ GLOBAL_SESSION' = NoSession
              /\ lastCall' = "close_returned"
              /\ ~enabled'[GLOBAL_SESSION]
       /\ (GLOBAL_SESSION = NoSession /\ GLOBAL_SESSION' # NoSession) =>
              /\ GLOBAL_SESSION' = nSessions + 1
              /\ nSessions' = nSessions + 1
              /\ ~prompted[GLOBAL_SESSION']
              /\ promptCount[GLOBAL_SESSION'] = 0
       /\ \A s \in SIDs : EACalled(s) => s = GLOBAL_SESSION'
       /\ (lastCall' = "shutdown_returned" /\ lastCall # "shutdown_returned") =>
              /\ GLOBAL_SESSION = NoSession
              /\ UNCHANGED <<fields, task, modv, counts>>]_vars

C25_Witness ==
    /\ GLOBAL_SESSION = 2
    /\ mainSession = NoSession
    /\ promptCount[2] = 1
    /\ prompted[2]
    /\ ~prompted[1]
    /\ lastCall = "ea_returned"

\* ---------------------------------------------------------------------
\* procedures/wireguard.py: provision_wireguard
\* ---------------------------------------------------------------------

\* The file as it was before the procedure, when there was one.
OldLines == <<"[Interface]", "PrivateKey = old">>
NoFile == [exists |-> FALSE, lines |-> <<>>]
OldFile == [exists |-> TRUE, lines |-> OldLines]

\* What datetime.now() may read when the backup is named.
Timestamps == {"20240101-000000", "20240101-000001"}

\* config_path.with_suffix(config_path.suffix + f".{timestamp}.bak")
BackupPath(ts) == <<"wg0", ".conf", ".", ts, ".bak">>

\* The lines _write_wireguard_config builds; optional lines depend on
\* whether the answers were empty.
WgContent(key, dns, psk, allowed, keepalive) ==
    <<"[Interface]",
      IF key = "generated" THEN "PrivateKey = generated"
      ELSE "PrivateKey = entered",
      "Address = addr">>
    \o (IF dns THEN <<"DNS = dns">> ELSE <<>>)
    \o <<"", "[Peer]", "PublicKey = peer">>
    \o (IF psk THEN <<"PresharedKey = psk">> ELSE <<>>)
    \o (IF allowed THEN <<"AllowedIPs = ips">> ELSE <<>>)
    \o <<"Endpoint = host:port">>
    \o (IF keepalive THEN <<"PersistentKeepalive = 25">> ELSE <<>>)

\* The mode a file gets that `sudo tee` creates: sudo keeps the caller's
\* umask.
CreatedMode(umask) == IF umask = "077" THEN "0600" ELSE "0644"

\* mode is the mode of the config file ("none" while there is no file),
\* oldmode what it was before the procedure.
WgStarts ==
    { [name |-> "wg", pc |-> "prepare", old |-> o, conf |-> o,
       backup |-> [exists |-> FALSE, lines |-> <<>>, path |-> <<>>],
       dir |-> d, searchable |-> sr, wg |-> wg, key |-> "none",
       umask |-> um, oldmode |-> m, mode |-> m, isys |-> i,
       dns |-> dns, psk |-> psk, allowed |-> al, keepalive |-> ka,
       steps |-> <<>>, failed |-> {}, complete |-> FALSE] :
      o \in {NoFile, OldFile}, d \in BOOLEAN, sr \in BOOLEAN,
      wg \in BOOLEAN, um \in {"022", "077"},
      m \in {"none", "0644", "0600"}, i \in InitSystems \cup {"other"},
      dns \in BOOLEAN, psk \in BOOLEAN, al \in BOOLEAN, ka \in BOOLEAN }

\* A config file is inside a directory and has a mode: 0644, or 0600 as an
\* earlier run of the procedure leaves it.  searchable says whether the
\* caller may search /etc/wireguard: as it is when it is there, and as
\* `sudo mkdir -p` makes it under the caller's umask when it is not (owner
\* root; searchable under umask 022, under umask 077 only by root).
WgInit ==
    /\ SessionInit
    /\ proc \in { w \in WgStarts :
                    /\ (w.conf.exists => w.dir)
                    /\ (w.conf.exists = (w.mode # "none"))
                    /\ ((~w.dir /\ w.umask = "022") => w.searchable) }

\* subprocess.run(["sudo", ...], check=True): FileNotFoundError without a
\* sudo executable, CalledProcessError on a nonzero exit status,
\* KeyboardInterrupt while the command runs.
RunOutcomes ==
    IF sudoPresent THEN {"ok", "fail", "interrupt"} ELSE {"notfound"}

\* What a command of step `step` can have done to the files when it ends
\* with outcome o: all of its work, none of it, or, for the commands that
\* write a file, a part.  A command that is interrupted may have finished
\* before the interrupt arrived.
WgEffects(step, o) ==
    CASE o = "ok" -> {"full"}
      [] o = "notfound" -> {"none"}
      [] o = "fail" ->
            IF step \in {"cp", "tee"} THEN {"none", "partial"} ELSE {"none"}
      [] o = "interrupt" ->
            IF step \in {"cp", "tee"} THEN {"none", "partial", "full"}
            ELSE {"none", "full"}

WgRaises_Never(step) == FALSE

\* The helpers that log a CalledProcessError and raise it again.
WgRaises(step) == step \in {"mkdir", "cp", "tee", "chmod"}

\* Where the procedure stands after a command of step `step` ended with
\* outcome o, `next` being the step after it.
WgAfter(step, o, next) ==
    IF o = "ok" THEN next
    ELSE IF o \in {"notfound", "interrupt"} THEN "raised"
    ELSE IF WgRaises(step) THEN "raised" ELSE next

WgRan(step, o) ==
    [proc EXCEPT !.steps = Append(@, step),
                 !.failed = IF o = "ok" THEN @ ELSE @ \cup {step}]

\* run(["wg", ...], check=True) in _generate_keypair and
\* _derive_public_key.
WgRunOutcomes ==
    IF proc.wg THEN {"ok", "fail", "interrupt"} ELSE {"notfound"}

\* Lines 27-47: the dialog and the confirmation.  An interrupt at the
\* question leaves the procedure.
Wg_Confirm(answer) ==
    /\ proc.name = "wg" /\ proc.pc = "prepare"
    /\ proc' = [proc EXCEPT !.pc = CASE answer = "yes" -> "deps"
                                     [] answer = "no" -> "skipped"
                                     [] OTHER -> "raised"]
    /\ UNCHANGED sessv

\* Lines 49-53: check_install_dependencies({"wireguard-tools"}) and the
\* question for the interface name.  The dependency check returns, having
\* installed the package or not, or leaves the procedure with an exception
\* (an interrupt included), as an interrupt at the question does.  An
\* installed package brings the wg executable and may bring /etc/wireguard
\* (made), searchable by the caller (sr) or by root alone.
Wg_CheckDependencies(o, installed, made, sr, interrupted) ==
    /\ proc.name = "wg" /\ proc.pc = "deps"
    /\ made => (installed /\ ~proc.dir)
    /\ ~made => sr = proc.searchable
    /\ proc' = [proc EXCEPT
                   !.pc = IF o = "raised" \/ interrupted THEN "raised"
                          ELSE "keypair",
                   !.wg = @ \/ installed,
                   !.dir = @ \/ made,
                   !.searchable = sr]
    /\ UNCHANGED sessv

\* _obtain_keypair: a generated pair, or, when the user wants none or wg
\* genkey fails, an entered private key with an entered or derived public
\* key; only CalledProcessError is caught.
ObtainKeypair(answer, g, given, d) ==
    /\ proc.name = "wg" /\ proc.pc = "keypair"
    /\ g \in WgRunOutcomes /\ d \in WgRunOutcomes
    /\ proc' =
         IF answer = "interrupt" THEN [proc EXCEPT !.pc = "raised"]
         ELSE IF answer = "generate" /\ g = "ok"
         THEN [proc EXCEPT !.pc = "questions", !.key = "generated"]
         ELSE IF answer = "generate" /\ g \in {"notfound", "interrupt"}
         THEN [proc EXCEPT !.pc = "raised"]
         ELSE IF ~given /\ d \in {"notfound", "interrupt"}
         THEN [proc EXCEPT !.pc = "raised", !.key = "entered"]
         ELSE [proc EXCEPT !.pc = "questions", !.key = "entered"]
    /\ UNCHANGED sessv

\* Lines 61-92: the remaining questions.
Wg_Questions(interrupted) ==
    /\ proc.name = "wg" /\ proc.pc = "questions"
    /\ proc' = [proc EXCEPT !.pc = IF interrupted THEN "raised" ELSE "mkdir"]
    /\ UNCHANGED sessv

\* sudo mkdir -p /etc/wireguard
EnsureWireguardDirectory(o, e) ==
    /\ proc.name = "wg" /\ proc.pc = "mkdir"
    /\ o \in RunOutcomes /\ e \in WgEffects("mkdir", o)
    /\ proc' = [WgRan("mkdir", o) EXCEPT
                   !.pc = WgAfter("mkdir", o, "backup"),
                   !.dir = @ \/ e = "full"]
    /\ UNCHANGED sessv

\* config_path.exists() is evaluated by the caller, not by sudo: in a
\* directory the caller may not search it raises PermissionError.  A cp
\* that does not end well can leave a part of the backup.
BackupExistingConfig(o, e, ts) ==
    /\ proc.name = "wg" /\ proc.pc = "backup"
    /\ o \in RunOutcomes /\ e \in WgEffects("cp", o)
    /\ IF ~proc.searchable
       THEN proc' = [proc EXCEPT !.pc = "raised",
                                 !.failed = @ \cup {"exists"}]
       ELSE IF ~proc.conf.exists
       THEN proc' = [proc EXCEPT !.pc = "write"]
       ELSE proc' = [WgRan("cp", o) EXCEPT
                        !.pc = WgAfter("cp", o, "write"),
                        !.backup =
                            CASE e = "full" ->
                                     [exists |-> TRUE,
                                      lines |-> proc.conf.lines,
                                      path |-> BackupPath(ts)]
                              [] e = "partial" ->
                                     [exists |-> TRUE, lines |-> <<>>,
                                      path |-> BackupPath(ts)]
                              [] OTHER -> @]
    /\ UNCHANGED sessv

\* sudo tee: tee truncates the file when it opens it and creates it, with
\* the mode the umask gives, when there is none; a tee that does not end
\* well leaves the file as it was, truncated, or written.
WriteWireguardConfig(o, e) ==
    /\ proc.name = "wg" /\ proc.pc = "write"
    /\ o \in RunOutcomes /\ e \in WgEffects("tee", o)
    /\ proc' = [WgRan("tee", o) EXCEPT
                   !.pc = WgAfter("tee", o, "chmod"),
                   !.conf = CASE e = "full" ->
                                     [exists |-> TRUE,
                                      lines |-> WgContent(proc.key, proc.dns,
                                                          proc.psk,
                                                          proc.allowed,
                                                          proc.keepalive)]
                              [] e = "partial" ->
                                     [exists |-> TRUE, lines |-> <<>>]
                              [] OTHER -> @,
                   !.mode = IF e # "none" /\ ~proc.conf.exists
                            THEN CreatedMode(proc.umask) ELSE @]
    /\ UNCHANGED sessv

\* sudo chmod 600
SetConfigPermissions(o, e) ==
    /\ proc.name = "wg" /\ proc.pc = "chmod"
    /\ o \in RunOutcomes /\ e \in WgEffects("chmod", o)
    /\ proc' = [WgRan("chmod", o) EXCEPT
                   !.pc = WgAfter("chmod", o, "enable"),
                   !.mode = IF e = "full" THEN "0600" ELSE @]
    /\ UNCHANGED sessv

\* _enable_wireguard_service up to the end of `systemctl enable`: no
\* command for an init system that is neither OpenRC nor systemd; a
\* CalledProcessError of enable is caught, anything else leaves the
\* procedure.
EnableWireguardService(o) ==
    /\ proc.name = "wg" /\ proc.pc = "enable"
    /\ o \in RunOutcomes
    /\ IF proc.isys \notin {"openrc", "systemd"}
       THEN proc' = [proc EXCEPT !.pc = "done", !.complete = TRUE]
       ELSE proc' = [WgRan("enable", o) EXCEPT
                        !.pc = WgAfter("enable", o, "start")]
    /\ UNCHANGED sessv

\* `systemctl start`, and the return to provision_wireguard, which reports
\* the provisioning complete.
StartWireguardService(o) ==
    /\ proc.name = "wg" /\ proc.pc = "start"
    /\ o \in RunOutcomes
    /\ LET to == WgAfter("start", o, "done")
       IN proc' = [WgRan("start", o) EXCEPT !.pc = to,
                                            !.complete = (to = "done")]
    /\ UNCHANGED sessv

WgNext ==
    \/ \E a \in {"yes", "no", "interrupt"} : Wg_Confirm(a)
    \/ \E o \in {"returned", "raised"}, in \in BOOLEAN, mk \in BOOLEAN,
          sr \in BOOLEAN, i \in BOOLEAN :
           Wg_CheckDependencies(o, in, mk, sr, i)
    \/ \E a \in {"generate", "manual", "interrupt"},
          g \in WgRunOutcomes, gv \in BOOLEAN, d \in WgRunOutcomes :
           ObtainKeypair(a, g, gv, d)
    \/ \E i \in BOOLEAN : Wg_Questions(i)
    \/ \E o \in RunOutcomes : \E e \in WgEffects("mkdir", o) :
           EnsureWireguardDirectory(o, e)
    \/ \E o \in RunOutcomes, ts \in Timestamps :
           \E e \in WgEffects("cp", o) : BackupExistingConfig(o, e, ts)
    \/ \E o \in RunOutcomes : \E e \in WgEffects("tee", o) :
           WriteWireguardConfig(o, e)
    \/ \E o \in RunOutcomes : \E e \in WgEffects("chmod", o) :
           SetConfigPermissions(o, e)
    \/ \E o \in RunOutcomes : EnableWireguardService(o)
    \/ \E o \in RunOutcomes : StartWireguardService(o)

WgSpec == WgInit /\ [][WgNext]_vars

IsPrefix(a, b) == Len(a) <= Len(b) /\ \A i \in 1..Len(a) : a[i] = b[i]

WgOrder(existed) ==
    <<"mkdir">> \o (IF existed THEN <<"cp">> ELSE <<>>)
    \o <<"tee", "chmod", "enable", "start">>

\* C26: provision_wireguard runs mkdir, backup, write, chmod 600 and the
\* service commands in this order; a failed mkdir, backup, write or chmod is
\* the last command of the flow; a config file that existed is changed only
\* after a timestamped backup holds its content; after a failed mkdir or
\* backup (the existence test of the backup included) the config file is
\* as it was; the file's mode is as it was until the write has run, and
\* chmod runs only after a write that ended well.
C26_OrderedStopsOnFailure ==
    proc.name = "wg" =>
        /\ IsPrefix(proc.steps, WgOrder(proc.old.exists))
        /\ \A i \in 1..Len(proc.steps) :
               (proc.steps[i] \in proc.failed
                    /\ proc.steps[i] \in {"mkdir", "cp", "tee", "chmod"}) =>
                   /\ i = Len(proc.steps)
                   /\ proc.pc = "raised"
                   /\ ~proc.complete
        /\ (proc.old.exists /\ proc.conf # proc.old) =>
               /\ proc.backup.exists
               /\ proc.backup.lines = proc.old.lines
               /\ \E ts \in Timestamps : proc.backup.path = BackupPath(ts)
        /\ (proc.failed \cap {"mkdir", "exists", "cp"} # {}) =>
               (proc.conf = proc.old /\ proc.pc = "raised")
        /\ proc.mode # proc.oldmode => "tee" \in Range(proc.steps)
        /\ "chmod" \in Range(proc.steps) =>
               "tee" \in (Range(proc.steps) \ proc.failed)

C26_Witness ==
    /\ proc.name = "wg"
    /\ proc.pc = "done"
    /\ proc.old.exists
    /\ proc.conf.lines = WgContent("generated", TRUE, FALSE, TRUE, TRUE)
    /\ proc.backup.lines = OldLines
    /\ proc.oldmode = "0644"
    /\ proc.mode = "0600"
    /\ proc.steps = WgOrder(TRUE)
    /\ proc.failed = {"enable"}

\* ---------------------------------------------------------------------
\* utils/firewall_utils.py: configure_nftables
\* ---------------------------------------------------------------------

\* How often _apply_nft_rules is applied with the same arguments.
MaxPasses == 2

\* Text is a sequence of pieces; every decimal digit is a piece of its own,
\* so that one number can be found inside another as in Python's `in`.
DigitChar == <<"0", "1", "2", "3", "4", "5", "6", "7", "8", "9">>
DigitChars == Range(DigitChar)

\* str(port)
RECURSIVE Str(_)
Str(n) == IF n < 10 THEN <<DigitChar[n + 1]>>
          ELSE Str(n \div 10) \o <<DigitChar[(n % 10) + 1]>>

\* pattern in line
In(pattern, line) ==
    \E i \in 0..(Len(line) - Len(pattern)) :
        SubSeq(line, i + 1, i + Len(pattern)) = pattern

NoScope == [family |-> "", network |-> ""]

FamilyText(f) == IF f = "ip6" THEN <<"ip", "6">> ELSE <<"ip">>

\* f"{scope[0]} saddr {scope[1]} " in front of a scoped rule
ScopeText(scope) ==
    IF scope = NoScope THEN <<>>
    ELSE FamilyText(scope.family) \o <<" saddr ", scope.network, " ">>

\* search_term of _add_rule
SearchTerm(scope, port) == ScopeText(scope) \o <<"tcp dport ">> \o Str(port)

\* The rule the add command appends, as the chain listing prints it.
RuleLine(scope, port) == SearchTerm(scope, port) \o <<" accept">>

\* The outcome of `nft list chain inet filter input` on chain c.
ListingOf(c) == <<<<"chain input {">>>> \o c \o <<<<"}">>>>

NoListing == <<<<"<None>">>>>

HasRuleForPort_Exact(chain_state, port) ==
    \E k \in 1..Len(chain_state) :
        \E i \in 0..(Len(chain_state[k]) - Len(Str(port)) - 1) :
            /\ SubSeq(chain_state[k], i + 1, i + 1 + Len(Str(port)))
                   = <<"tcp dport ">> \o Str(port)
            /\ (i + 1 + Len(Str(port)) < Len(chain_state[k]) =>
                    chain_state[k][i + 2 + Len(Str(port))] \notin DigitChars)

\* _has_rule_for_port
HasRuleForPort(chain_state, port) ==
    \E k \in 1..Len(chain_state) :
        In(<<"tcp dport ">> \o Str(port), chain_state[k])

TermPresent_Never(term, chain_state) == FALSE

\* search_term in chain_state
TermPresent(term, chain_state) ==
    \E k \in 1..Len(chain_state) : In(term, chain_state[k])

\* sorted(S)
RECURSIVE Sorted(_)
Sorted(S) ==
    IF S = {} THEN <<>>
    ELSE LET m == CHOOSE x \in S : \A y \in S : x <= y
         IN <<m>> \o Sorted(S \ {m})

\* sorted({int(p) for p in ports if p})
UniquePorts(ports) == Sorted({ ports[i] : i \in DOMAIN ports } \ {0})

\* [p for p in unique_ports if not _has_rule_for_port(chain_state, p)]
MissingPorts(unique_ports, chain_state) ==
    LET Missing(p) == ~HasRuleForPort(chain_state, p)
    IN SelectSeq(unique_ports, Missing)

AllNetworks == [ip |-> <<"0.0.0.0/0">>, ip6 |-> <<"::/0">>]
NoNetworks == [ip |-> <<>>, ip6 |-> <<>>]
DetectedNetworks == {NoNetworks, [ip |-> <<"192.168.1.0/24">>, ip6 |-> <<>>]}
CustomNetworks == {[ip |-> <<"10.0.0.0/8">>, ip6 |-> <<"fd00::/8">>]}

\* _select_network_scope
SelectNetworkScope(selection, detected, custom) ==
    IF selection = 1 THEN AllNetworks
    ELSE IF selection = 2
    THEN (IF detected = NoNetworks THEN AllNetworks ELSE detected)
    ELSE custom

\* The (scope, port) pairs in the order the loops of _apply_nft_rules
\* visit them.
PairsOfPort(port, networks) ==
    IF networks = NoNetworks
    THEN <<[scope |-> NoScope, port |-> port]>>
    ELSE [i \in 1..Len(networks.ip) |->
             [scope |-> [family |-> "ip", network |-> networks.ip[i]],
              port |-> port]]
         \o [i \in 1..Len(networks.ip6) |->
             [scope |-> [family |-> "ip6", network |-> networks.ip6[i]],
              port |-> port]]

RECURSIVE Pairs(_, _)
Pairs(ports, networks) ==
    IF ports = <<>> THEN <<>>
    ELSE PairsOfPort(Head(ports), networks) \o Pairs(Tail(ports), networks)

NftPorts == {0, 80, 8080}
NftInputs == { <<a>> : a \in NftPorts } \cup (NftPorts \X NftPorts)

NftScopes == {NoScope, [family |-> "ip", network |-> "0.0.0.0/0"],
              [family |-> "ip6", network |-> "::/0"]}

\* The input chain as it is before the call: empty or one accept rule.
NftChains ==
    {<<>>} \cup { <<RuleLine(s, p)>> : s \in NftScopes, p \in {80, 8080} }

NftStarts ==
    { [name |-> "nft", pc |-> "check", ports |-> ps, chain |-> c,
       detected |-> d, unique_ports |-> <<>>, missing_ports |-> <<>>,
       listed |-> NoListing, networks |-> NoNetworks,
       chain_state |-> NoListing, todo |-> <<>>, pass |-> 0,
       adds |-> <<>>, failedAdds |-> 0] :
      ps \in NftInputs, c \in NftChains, d \in DetectedNetworks }

NftInit == SessionInit /\ proc \in NftStarts

\* _list_input_chain: the listing, or None when sudo is missing or nft
\* exits with an error.
ListInputChain(ok) ==
    IF ok /\ sudoPresent THEN ListingOf(proc.chain) ELSE NoListing

\* configure_nftables, lines 32-56; interrupted says that the listing
\* command is interrupted while it runs, and the KeyboardInterrupt, which
\* _list_input_chain does not catch, leaves configure_nftables.
ConfigureNftables_Check(whichNft, listOk, interrupted) ==
    /\ proc.name = "nft" /\ proc.pc = "check"
    /\ interrupted =>
           (UniquePorts(proc.ports) # <<>> /\ whichNft /\ sudoPresent)
    /\ LET unique == UniquePorts(proc.ports)
           listing == ListInputChain(listOk)
           missing == MissingPorts(unique, listing)
       IN IF interrupted
          THEN proc' = [proc EXCEPT !.pc = "raised", !.unique_ports = unique]
          ELSE IF unique = <<>>
          THEN proc' = [proc EXCEPT !.pc = "no_ports"]
          ELSE IF ~whichNft
          THEN proc' = [proc EXCEPT !.pc = "no_nft", !.unique_ports = unique]
          ELSE IF listing = NoListing
          THEN proc' = [proc EXCEPT !.pc = "no_listing",
                                    !.unique_ports = unique]
          ELSE proc' = [proc EXCEPT
                           !.pc = IF missing = <<>> THEN "allowed" ELSE "ask",
                           !.unique_ports = unique,
                           !.listed = listing,
                           !.missing_ports = missing]
    /\ UNCHANGED sessv

\* configure_nftables, lines 58-91; an interrupt at one of the questions
\* leaves configure_nftables.
ConfigureNftables_Ask(confirm, selection, custom, interrupted) ==
    /\ proc.name = "nft" /\ proc.pc = "ask"
    /\ IF interrupted
       THEN proc' = [proc EXCEPT !.pc = "raised"]
       ELSE IF ~confirm
       THEN proc' = [proc EXCEPT !.pc = "declined"]
       ELSE proc' = [proc EXCEPT
                        !.pc = "apply",
                        !.networks = SelectNetworkScope(selection,
                                                        proc.detected, custom)]
    /\ UNCHANGED sessv

\* _apply_nft_rules, lines 210-215.
ApplyNftRules_Begin(listOk, interrupted) ==
    /\ proc.name = "nft" /\ proc.pc = "apply"
    /\ interrupted => sudoPresent
    /\ LET listing == ListInputChain(listOk)
       IN IF interrupted
          THEN proc' = [proc EXCEPT !.pc = "raised", !.pass = @ + 1]
          ELSE IF listing = NoListing
          THEN proc' = [proc EXCEPT !.pc = "not_applied", !.pass = @ + 1]
          ELSE proc' = [proc EXCEPT
                           !.pc = "loop", !.pass = @ + 1,
                           !.chain_state = listing,
                           !.todo = Pairs(proc.missing_ports, proc.networks)]
    /\ UNCHANGED sessv

\* One pass of the loops of _apply_nft_rules: _add_rule, then the listing
\* is read again and kept when it could be read.  interrupted names the
\* command that is interrupted while it runs, if one is: the add command,
\* which has added its rule by then (addOk) or has not, or the listing
\* command.
ApplyNftRules_Step(addOk, listOk, interrupted) ==
    /\ proc.name = "nft" /\ proc.pc = "loop"
    /\ interrupted # "none" => proc.todo # <<>>
    /\ interrupted = "add" =>
           ~TermPresent(SearchTerm(Head(proc.todo).scope, Head(proc.todo).port),
                        proc.chain_state)
    /\ IF proc.todo = <<>>
       THEN proc' = [proc EXCEPT !.pc = "applied"]
       ELSE LET pair == Head(proc.todo)
                skip == TermPresent(SearchTerm(pair.scope, pair.port),
                                    proc.chain_state)
                line == RuleLine(pair.scope, pair.port)
                chain2 == IF ~skip /\ addOk THEN Append(proc.chain, line)
                          ELSE proc.chain
                reread == IF listOk /\ interrupted = "none"
                          THEN ListingOf(chain2)
                          ELSE proc.chain_state
            IN proc' = [proc EXCEPT
                  !.pc = IF interrupted = "none" THEN @ ELSE "raised",
                  !.todo = Tail(@),
                  !.chain = chain2,
                  !.chain_state = reread,
                  !.adds = IF skip THEN @
                           ELSE Append(@, [pair |-> pair, pass |-> proc.pass,
                                           present |->
                                               line \in Range(proc.chain)]),
                  !.failedAdds = IF ~skip /\ ~addOk /\ interrupted # "add"
                                 THEN @ + 1 ELSE @]
    /\ UNCHANGED sessv

\* _apply_nft_rules is applied again with the same ports and networks.
ApplyNftRules_Again ==
    /\ proc.name = "nft" /\ proc.pc = "applied"
    /\ proc.pass < MaxPasses
    /\ proc' = [proc EXCEPT !.pc = "apply"]
    /\ UNCHANGED sessv

NftNext ==
    \/ \E w \in BOOLEAN, l \in BOOLEAN, i \in BOOLEAN :
           ConfigureNftables_Check(w, l, i)
    \/ \E c \in BOOLEAN, sel \in 1..3, cu \in CustomNetworks, i \in BOOLEAN :
           ConfigureNftables_Ask(c, sel, cu, i)
    \/ \E l \in BOOLEAN, i \in BOOLEAN : ApplyNftRules_Begin(l, i)
    \/ \E a \in BOOLEAN, l \in BOOLEAN, i \in {"none", "add", "list"} :
           ApplyNftRules_Step(a, l, i)
    \/ ApplyNftRules_Again

NftSpec == NftInit /\ [][NftNext]_vars

NftChecked ==
    /\ proc.name = "nft"
    /\ proc.pc \in {"allowed", "ask", "declined", "apply", "loop", "applied",
                   "not_applied"}

\* C27: once configure_nftables has read the listing, a requested port is
\* left out of the missing ports exactly when the listing has a tcp dport
\* rule for that very port number.
C27_SkipsOnlyExactPort ==
    NftChecked =>
        \A i \in 1..Len(proc.unique_ports) :
            (proc.unique_ports[i] \notin Range(proc.missing_ports))
                <=> HasRuleForPort_Exact(proc.listed, proc.unique_ports[i])

\* C28: _apply_nft_rules issues an add command only for a pair whose rule
\* is not in the chain, and once a pass has added every rule it issued, a
\* further pass with the same ports and networks issues none.
C28_NoAddForPresentRule ==
    proc.name = "nft" =>
        /\ \A i \in 1..Len(proc.adds) : ~proc.adds[i].present
        /\ proc.failedAdds = 0 =>
               \A i \in 1..Len(proc.adds) : proc.adds[i].pass = 1

C28_Witness ==
    /\ proc.name = "nft"
    /\ proc.pc = "applied"
    /\ proc.pass = 2
    /\ proc.failedAdds = 0
    /\ Len(proc.adds) = 4
    /\ Len(proc.chain) = 4

\* ---------------------------------------------------------------------
\* components/webui_client/client_utils.py: get_client_port_selection
\* ---------------------------------------------------------------------

\* How often the question is asked before the model stops answering.
MaxAsks == 3

\* range(80, 7125)
ValidPortMin == 80
ValidPortEnd == 7125

\* get_nginx_listen_port of a config without a listen port it can parse.
NoPort == -1

\* A config whose reading raises: open() may not read it (PermissionError),
\* or readlines() finds a byte that is not UTF-8 (UnicodeDecodeError).
Unreadable == -2

\* What the enabled configs listen on, in directory order.
ConfigPorts == {NoPort, Unreadable, 80, 81, 443}
ConfigLists ==
    {<<>>} \cup { <<a>> : a \in ConfigPorts } \cup (ConfigPorts \X ConfigPorts)

\* sorted(port_list, key=int), duplicates kept
RECURSIVE SortedList(_)
SortedList(s) ==
    IF s = <<>> THEN <<>>
    ELSE LET i == CHOOSE j \in DOMAIN s : \A k \in DOMAIN s : s[j] <= s[k]
         IN <<s[i]>> \o SortedList(SubSeq(s, 1, i - 1)
                                   \o SubSeq(s, i + 1, Len(s)))

\* read_ports_from_nginx_configs
ReadPortsFromNginxConfigs(configs) ==
    LET Parsed(x) == x # NoPort
    IN SortedList(SelectSeq(configs, Parsed))

\* min(valid_ports - used_ports), found by counting up from 80; no port is
\* left when the count reaches the end of the range (min() of an empty set
\* raises ValueError).
RECURSIVE FreeFrom(_, _)
FreeFrom(p, used) ==
    IF p >= ValidPortEnd THEN NoPort
    ELSE IF p \notin used THEN p
    ELSE FreeFrom(p + 1, used)

GetNextFreePort(ports_in_use) == FreeFrom(ValidPortMin, Range(ports_in_use))

PortAccepted_Always(port_input, ports_in_use) == TRUE

\* port_input not in ports_in_use
PortAccepted(port_input, ports_in_use) ==
    port_input \notin Range(ports_in_use)

\* What get_number_input(question, min_value=80, default=port) returns:
\* the default on an empty answer, else a number of at least min_value.
NumberInputs(default) == {default} \cup {80, 81, 82, 443, 8080}

DefaultPorts == {80, 81, 7125}

\* listable: the caller may test and list /etc/nginx/sites-enabled.
PortStarts ==
    { [name |-> "port", pc |-> "start", configs |-> c, listable |-> l,
       default_port |-> d, reconfigure |-> r, ports_in_use |-> <<>>,
       port |-> NoPort, saved |-> d, returned |-> NoPort,
       rejected |-> <<>>] :
      c \in ConfigLists, l \in BOOLEAN, d \in DefaultPorts,
      r \in BOOLEAN }

PortInit == SessionInit /\ proc \in PortStarts

\* read_ports_from_nginx_configs leaves by an exception, which nothing
\* catches: exists() (516) or iterdir() (470) on a directory the caller may
\* not list, open() (493) or readlines() (494) on a config it cannot read.
ReadPortsRaises(configs, listable) ==
    \/ ~listable
    \/ \E i \in DOMAIN configs : configs[i] = Unreadable

\* get_client_port_selection, lines 533-543; an exception of the reading
\* of the configs ends it before the dialog.
PortSelection_Begin ==
    /\ proc.name = "port" /\ proc.pc = "start"
    /\ IF ReadPortsRaises(proc.configs, proc.listable)
       THEN proc' = [proc EXCEPT !.pc = "raised"]
       ELSE LET used == ReadPortsFromNginxConfigs(proc.configs)
                next_free_port == GetNextFreePort(used)
                inUse == proc.default_port \in Range(used)
            IN proc' = [proc EXCEPT
                   !.pc = IF next_free_port = NoPort THEN "error" ELSE "ask",
                   !.ports_in_use = used,
                   !.port = IF ~proc.reconfigure /\ inUse
                            THEN next_free_port
                            ELSE proc.default_port]
    /\ UNCHANGED sessv

\* One pass of the loop, lines 545-557; an interrupt at the question leaves
\* get_client_port_selection.
PortSelection_Ask(port_input, interrupted) ==
    /\ proc.name = "port" /\ proc.pc = "ask"
    /\ Len(proc.rejected) < MaxAsks
    /\ port_input \in NumberInputs(proc.port)
    /\ IF interrupted
       THEN proc' = [proc EXCEPT !.pc = "raised"]
       ELSE IF PortAccepted(port_input, proc.ports_in_use)
       THEN proc' = [proc EXCEPT !.pc = "returned",
                                 !.saved = port_input,
                                 !.returned = port_input]
       ELSE proc' = [proc EXCEPT !.rejected = Append(@, port_input)]
    /\ UNCHANGED sessv

PortNext ==
    \/ PortSelection_Begin
    \/ \E n \in DefaultPorts \cup {80, 81, 82, 443, 8080}, i \in BOOLEAN :
           PortSelection_Ask(n, i)

PortSpec == PortInit /\ [][PortNext]_vars

\* C29: get_client_port_selection returns and saves only a port that no
\* enabled nginx config listens on, every answer it asked again for is a
\* port in use, nothing is saved before it returns, and the port it
\* proposes is the configured one, or, when not reconfiguring and the
\* configured one is in use, the smallest port of 80..7124 not in use.
C29_ReturnsFreePort ==
    (proc.name = "port" /\ proc.pc \in {"ask", "returned"}) =>
        LET used == { proc.configs[i] : i \in DOMAIN proc.configs } \ {NoPort}
        IN /\ Range(proc.ports_in_use) = used
           /\ proc.pc = "returned" =>
                  /\ proc.returned \notin used
                  /\ proc.saved = proc.returned
           /\ proc.pc = "ask" => proc.saved = proc.default_port
           /\ \A i \in 1..Len(proc.rejected) : proc.rejected[i] \in used
           /\ IF ~proc.reconfigure /\ proc.default_port \in used
              THEN /\ proc.port \in 80..7124
                   /\ proc.port \notin used
                   /\ \A q \in 80..(proc.port - 1) : q \in used
              ELSE proc.port = proc.default_port

C29_Witness ==
    /\ proc.name = "port"
    /\ proc.pc = "returned"
    /\ ~proc.reconfigure
    /\ proc.default_port = 80
    /\ proc.ports_in_use = <<80, 81>>
    /\ proc.port = 82
    /\ proc.rejected = <<81>>
    /\ proc.returned = 82

\* ---------------------------------------------------------------------
\* utils/sys_utils.py: create_python_venv
\* ---------------------------------------------------------------------

\* n = 2
VenvPasses == 2

\* python_binary and cmd, lines 161-165.
VenvCmd(use_python_binary, site_packages) ==
    <<"virtualenv", "-p",
      IF use_python_binary # "" THEN use_python_binary ELSE "/usr/bin/python3",
      "target">>
    \o (IF site_packages THEN <<"--system-site-packages">> ELSE <<>>)

\* searchable: the caller may search the directory the target lies in.
VenvStarts ==
    { [name |-> "venv", pc |-> "loop", exists |-> e, searchable |-> s,
       force |-> f,
       cmd |-> VenvCmd(b, sp), virtualenvPresent |-> v, n |-> VenvPasses,
       passes |-> 0, deletions |-> 0, asked |-> 0, declined |-> FALSE,
       ran |-> <<>>, ranOk |-> FALSE, existedAtRun |-> FALSE,
       existedAtPass |-> <<>>, ret |-> "none"] :
      e \in BOOLEAN, s \in BOOLEAN, f \in BOOLEAN,
      b \in {"", "/usr/bin/python3.11"}, sp \in BOOLEAN, v \in BOOLEAN }

VenvInit == SessionInit /\ proc \in VenvStarts

\* run(cmd, check=True): FileNotFoundError when there is no virtualenv
\* executable, CalledProcessError when it exits with an error,
\* KeyboardInterrupt while it runs.
VenvRunOutcomes ==
    IF proc.virtualenvPresent THEN {"ok", "fail", "interrupt"}
    ELSE {"notfound"}

VenvBegun ==
    [proc EXCEPT !.passes = @ + 1,
                 !.existedAtPass = Append(@, proc.exists)]

\* target.exists() at line 169, in a directory the caller may not search,
\* raises PermissionError, which nothing catches: create_python_venv ends
\* before the pass has run or asked anything.
VenvTestRaised == [proc EXCEPT !.pc = "raised"]

\* A pass of the loop that finds no target, lines 169-176.  made says
\* whether virtualenv has created the target: it has when it ends well, it
\* may have when it fails or is interrupted.
CreatePythonVenv_Create(o, made) ==
    /\ proc.name = "venv" /\ proc.pc = "loop" /\ proc.n > 0
    /\ ~proc.exists
    /\ o \in VenvRunOutcomes
    /\ o = "ok" => made
    /\ o = "notfound" => ~made
    /\ IF ~proc.searchable
       THEN proc' = VenvTestRaised
       ELSE proc' = [VenvBegun EXCEPT
                        !.ran = proc.cmd,
                        !.ranOk = (o = "ok"),
                        !.existedAtRun = proc.exists,
                        !.exists = made,
                        !.pc = IF o \in {"notfound", "interrupt"}
                               THEN "raised" ELSE "returned",
                        !.ret = IF o = "ok" THEN "True"
                                ELSE IF o = "fail" THEN "False"
                                ELSE "none"]
    /\ UNCHANGED sessv

\* A pass of the loop that finds the target, lines 177-195.  confirm is
\* the answer to the question: "yes", "no", or "interrupt", with which the
\* KeyboardInterrupt leaves create_python_venv.  rm is how shutil.rmtree
\* ends: it returns, raises OSError, or is interrupted, and the
\* KeyboardInterrupt leaves create_python_venv; again says whether the
\* target is there afterwards (after a removal without an error it is gone,
\* or there again).
CreatePythonVenv_Remove(confirm, rm, again) ==
    /\ proc.name = "venv" /\ proc.pc = "loop" /\ proc.n > 0
    /\ proc.exists
    /\ IF ~proc.searchable
       THEN proc' = VenvTestRaised
       ELSE IF proc.n = 1
       THEN proc' = [VenvBegun EXCEPT !.pc = "returned", !.ret = "False"]
       ELSE IF ~proc.force /\ confirm = "interrupt"
       THEN proc' = [VenvBegun EXCEPT !.pc = "raised", !.asked = @ + 1]
       ELSE IF ~proc.force /\ confirm = "no"
       THEN proc' = [VenvBegun EXCEPT !.pc = "returned", !.ret = "False",
                                      !.asked = @ + 1, !.declined = TRUE]
       ELSE IF rm = "oserror"
       THEN proc' = [VenvBegun EXCEPT
                        !.pc = "returned", !.ret = "False",
                        !.asked = IF proc.force THEN @ ELSE @ + 1,
                        !.deletions = @ + 1,
                        !.exists = again]
       ELSE IF rm = "interrupt"
       THEN proc' = [VenvBegun EXCEPT
                        !.pc = "raised",
                        !.asked = IF proc.force THEN @ ELSE @ + 1,
                        !.deletions = @ + 1,
                        !.exists = again]
       ELSE proc' = [VenvBegun EXCEPT
                        !.n = @ - 1,
                        !.asked = IF proc.force THEN @ ELSE @ + 1,
                        !.deletions = @ + 1,
                        !.exists = again]
    /\ UNCHANGED sessv

VenvNext ==
    \/ \E o \in {"ok", "fail", "interrupt", "notfound"}, m \in BOOLEAN :
           CreatePythonVenv_Create(o, m)
    \/ \E c \in {"yes", "no", "interrupt"},
          r \in {"ok", "oserror", "interrupt"}, a \in BOOLEAN :
           CreatePythonVenv_Remove(c, r, a)

VenvSpec == VenvInit /\ [][VenvNext]_vars

\* C30: create_python_venv ends by returning True or False, after at most
\* two passes of its loop and at most one removal of the target; it returns
\* True only when virtualenv succeeded on an absent target; when the user
\* declines it has removed nothing and returns False; and a target found
\* after the removal makes it return False.
C30_VenvTerminates ==
    proc.name = "venv" =>
        /\ proc.passes <= 2
        /\ proc.deletions <= 1
        /\ proc.pc # "raised"
        /\ proc.pc = "loop" => (proc.n > 0 /\ proc.passes < 2)
        /\ proc.pc = "returned" => proc.ret \in {"True", "False"}
        /\ proc.ret = "True" => (proc.ranOk /\ ~proc.existedAtRun)
        /\ proc.declined =>
               (proc.deletions = 0 /\ proc.ret = "False" /\ proc.ran = <<>>)
        /\ (proc.passes = 2 /\ proc.existedAtPass[2]) =>
               (proc.ret = "False" /\ proc.ran = <<>>)

====
